---- MODULE Spec2Model ----
(***************************************************************************)
(* A model of the municipal document pipeline of hackville-TrueNorth:      *)
(* discoverer.js + chunker.js (src/unnamed/part_004), extractor.js,        *)
(* analyzer.js and pipeline.js, and of initializeAI of summarization.ts.   *)
(*                                                                         *)
(* Texts are sequences of tokens.  A token is a record [w, n]: w is the    *)
(* lower-cased word (or the punctuation / white space it stands for) and n *)
(* the number of characters it occupies.  A filler token F(n) stands for n *)
(* characters that hold no white space, no sentence terminator and no      *)
(* keyword.  Every length the code computes with String.length is the sum  *)
(* of the n fields, so the limits 2400, 300, 100, 50 and 10 keep the       *)
(* values they have in the source.  Letter case is not represented: the    *)
(* code lower-cases (or matches with /i) before every comparison.          *)
(***************************************************************************)
EXTENDS Integers, Sequences, FiniteSets, TLC

VARIABLES
    extractedDocuments,  \* chunkDocuments: the argument
    chunkOut,            \* chunkDocuments: the returned list
    cpc,                 \* chunkDocuments: "idle" | "returned"
    city,                \* the municipality being processed
    inflight,            \* the HTTP requests issued and not yet answered
    queue,               \* discoverRelevantPages: the work queue of crawl()
    visited,             \* discoverRelevantPages: visited
    results,             \* discoverRelevantPages: results
    robots,              \* discoverRelevantPages: robots
    timeoutReached,      \* discoverRelevantPages: timeoutReached
    timeout,             \* the 3-minute timer: "unset" | "armed" | "fired" | "cleared"
    promise,             \* the promise discoverRelevantPages returned
    cur,                 \* crawl(): the {url, depth} taken from the queue
    dpc,                 \* crawl(): where it is suspended
    dlog,                \* the URLs the loop took up, in order (history)
    resultsAtTimeout,    \* results when the timer fired (history)
    discoveredUrls,      \* extractDocuments: the argument
    documents,           \* extractDocuments: documents
    consecutiveFailures, \* extractDocuments: consecutiveFailures
    xrobots,             \* extractDocuments: robots
    xi,                  \* extractDocuments: the index of the for loop
    xpc,                 \* extractDocuments: where it is suspended
    xlog,                \* the outcome of every link taken up (history)
    cities,              \* runFullPipeline: cities
    pi,                  \* runFullPipeline: i + 1, the city being processed
    pstage,              \* processCity: the stage it is awaiting
    stageOut,            \* processCity: lengths of discoveredUrls, documents, chunks
    pipelineResults,     \* runFullPipeline: results
    completed,           \* runFullPipeline: completed
    skipped,             \* runFullPipeline: skipped
    errors,              \* runFullPipeline: errors
    snapshots,           \* the intermediate result files written
    summary,             \* finalResults.summary, <<>> until it is written
    plog,                \* the stages invoked, in order (history)
    qualityText,         \* isQualityContent: the argument
    qualityDecisions,    \* what isQualityContent returned, call by call
    responses,           \* analyzeChunks: what the classifier answers, per chunk
    ai,                  \* analyzeChunks: the chunk that is analyzed next
    allConcerns,         \* analyzeChunks: the concerns collected so far
    analyzed,            \* analyzeChunks: "running", or how the call ended
    categoryLink,        \* getCategory: the link it is called with
    categoryReturned,    \* getCategory: what it returned, call by call
    env,                 \* process.env: AI_PROVIDER and the two API keys
    genAI,               \* summarization.ts: genAI
    geminiModel,         \* summarization.ts: geminiModel
    openaiClient,        \* summarization.ts: openaiClient
    aiLog,               \* what initializeAI returned and who answered (history)
    dedupConcerns,       \* deduplicateConcerns: the argument
    dedupReturned        \* deduplicateConcerns: what it returned, call by call

chunkVars == <<extractedDocuments, chunkOut, cpc>>
discVars == <<queue, visited, results, robots, timeoutReached, timeout,
              promise, cur, dpc, dlog, resultsAtTimeout>>
extVars == <<discoveredUrls, documents, consecutiveFailures, xrobots, xi,
             xpc, xlog>>

pipeVars == <<cities, pi, pstage, stageOut, pipelineResults, completed,
              skipped, errors, snapshots, summary, plog>>

qualVars == <<qualityText, qualityDecisions>>

anaVars == <<responses, ai, allConcerns, analyzed>>

catVars == <<categoryLink, categoryReturned>>

sumVars == <<env, genAI, geminiModel, openaiClient, aiLog>>

dedupVars == <<dedupConcerns, dedupReturned>>

vars == <<chunkVars, city, inflight, discVars, extVars, pipeVars, qualVars,
          anaVars, catVars, sumVars, dedupVars>>

-----------------------------------------------------------------------------
(* Tokens *)

SP  == [w |-> " ", n |-> 1]
PB  == [w |-> "\n\n", n |-> 2]
DOT == [w |-> ".", n |-> 1]
K(word) == [w |-> word, n |-> Len(word)]
F(len)  == [w |-> "#", n |-> len]

IsWs(t)   == t.w \in {" ", "\n\n"}
IsTerm(t) == t.w \in {".", "!", "?"}

Min(S) == CHOOSE x \in S : \A y \in S : x <= y
Max(S) == CHOOSE x \in S : \A y \in S : x >= y

\* A function on 1..n as a tuple, its values computed once.
AsSeq(f) == <<>> \o f

\* The elements of a set of numbers, in increasing order.
Sorted(S) ==
    AsSeq([ k \in 1..Cardinality(S) |->
              CHOOSE i \in S : Cardinality({ j \in S : j < i }) = k - 1 ])

\* String.length
RECURSIVE TextLen(_)
TextLen(text) ==
    IF text = <<>> THEN 0
    ELSE IF Len(text) = 1 THEN text[1].n
    ELSE LET h == Len(text) \div 2
         IN  TextLen(SubSeq(text, 1, h)) + TextLen(SubSeq(text, h + 1, Len(text)))

\* String.prototype.trim
Trim(text) ==
    LET solid == { i \in 1..Len(text) : ~IsWs(text[i]) }
    IN  IF solid = {} THEN <<>> ELSE SubSeq(text, Min(solid), Max(solid))

\* The words of the vocabulary that hold a keyword as a proper substring.
Substrings ==
    { <<"residents", "resident">>, <<"issues", "issue">>,
      <<"concerns", "concern">>, <<"complaints", "complaint">>,
      <<"agendas", "agenda">>, <<"committees", "committee">>,
      <<"minutes-2024.pdf", "minutes">>,
      <<"council-events", "council">>, <<"council-events", "events">> }

\* word.includes(keyword), for a keyword without white space
Contains(word, keyword) == word = keyword \/ <<word, keyword>> \in Substrings

\* text.includes(keyword); a keyword of several words ("public input") is a
\* sequence of words that must stand next to each other, one space apart
Includes(text, keyword) ==
    \E i \in 1..Len(text) :
        /\ i + 2 * (Len(keyword) - 1) <= Len(text)
        /\ \A k \in 1..Len(keyword) :
              /\ IF k = 1 \/ k = Len(keyword)
                 THEN Contains(text[i + 2 * (k - 1)].w, keyword[k])
                 ELSE text[i + 2 * (k - 1)].w = keyword[k]
              /\ k > 1 => text[i + 2 * (k - 1) - 1] = SP

\* The pieces String.prototype.split leaves between the separators, given
\* the separators as the sequence of their <<first, last>> indices.
Pieces(text, seps) ==
    AsSeq([ k \in 1..(Len(seps) + 1) |->
              SubSeq(text,
                     IF k = 1 THEN 1 ELSE seps[k - 1][2] + 1,
                     IF k = Len(seps) + 1 THEN Len(text) ELSE seps[k][1] - 1) ])

\* The last index of the run of tokens of one kind that starts at i.
TermRunEnd(text, i) ==
    Min({ j \in i..Len(text) : j = Len(text) \/ ~IsTerm(text[j + 1]) })

WsRunEnd(text, i) ==
    Min({ j \in i..Len(text) : j = Len(text) \/ ~IsWs(text[j + 1]) })

WordEnd(text, i) ==
    Min({ j \in i..Len(text) : j = Len(text) \/ IsWs(text[j + 1]) })

\* text.split(/[.!?]+/): the separators are the maximal runs of terminators
SplitSentences(text) ==
    LET starts == Sorted({ i \in 1..Len(text) :
                            /\ IsTerm(text[i])
                            /\ (i = 1 \/ ~IsTerm(text[i - 1])) })
    IN  Pieces(text, AsSeq([ k \in 1..Len(starts) |->
                               <<starts[k], TermRunEnd(text, starts[k])>> ]))

\* The first index of the white-space run that holds index i.
WsRunStart(text, i) ==
    Max({ j \in 1..i : j = 1 \/ ~IsWs(text[j - 1]) })

\* text.split(/\n\s*\n/): a separator starts at the first line break of a run
\* of white space and ends, \s* being greedy, at the last line break of it
SplitParagraphs(text) ==
    LET starts == Sorted({ i \in 1..Len(text) :
                            /\ text[i] = PB
                            /\ \A j \in WsRunStart(text, i)..(i - 1) :
                                  text[j] # PB })
    IN  Pieces(text, AsSeq([ k \in 1..Len(starts) |->
                               <<starts[k],
                                 Max({ j \in starts[k]..WsRunEnd(text, starts[k]) :
                                         text[j] = PB })>> ]))

\* Array.prototype.join('\n\n')
RECURSIVE JoinParagraphs(_)
JoinParagraphs(ps) ==
    IF ps = <<>> THEN <<>>
    ELSE IF Len(ps) = 1 THEN ps[1]
    ELSE ps[1] \o <<PB>> \o JoinParagraphs(Tail(ps))

\* The last index of the line of i ('.' does not match a line break).
LineEnd(text, i) ==
    Min({ j \in i..Len(text) : j = Len(text) \/ text[j + 1] = PB })

\* Whether the rest of a pattern k1.*k2.*... matches at or after index i, up
\* to index last.
RECURSIVE MatchesFrom(_, _, _, _)
MatchesFrom(text, pat, i, last) ==
    IF pat = <<>> THEN TRUE
    ELSE \E j \in i..last :
            /\ Contains(text[j].w, Head(pat))
            /\ MatchesFrom(text, Tail(pat), j + 1, last)

\* A match of the pattern starts at index i.
MatchesAt(text, pat, i) ==
    /\ Contains(text[i].w, Head(pat))
    /\ MatchesFrom(text, Tail(pat), i + 1, LineEnd(text, i))

\* new RegExp(pattern, 'i').test(text)
RegexTest(text, pat) == \E i \in 1..Len(text) : MatchesAt(text, pat, i)

\* text.replace(/k1.*k2.../gi, ''), from index i on: the leftmost match is
\* removed first; the greedy .* takes it to the last occurrence of the last
\* keyword on the line; the search goes on behind the match.
RECURSIVE RegexRemoveFrom(_, _, _)
RegexRemoveFrom(text, pat, i) ==
    LET matches == { m \in i..Len(text) : MatchesAt(text, pat, m) }
    IN  IF matches = {} THEN SubSeq(text, i, Len(text))
        ELSE LET m == Min(matches)
                 e == Max({ k \in (m + 1)..LineEnd(text, m) :
                              Contains(text[k].w, pat[Len(pat)]) })
             IN  SubSeq(text, i, m - 1) \o RegexRemoveFrom(text, pat, e + 1)

RegexRemove(text, pat) == RegexRemoveFrom(text, pat, 1)

\* text.replace(/\s+/g, ' ')
CollapseWs(text) ==
    LET kept == Sorted({ i \in 1..Len(text) :
                          ~IsWs(text[i]) \/ i = 1 \/ ~IsWs(text[i - 1]) })
    IN  AsSeq([ k \in 1..Len(kept) |->
                  IF IsWs(text[kept[k]]) THEN SP ELSE text[kept[k]] ])

-----------------------------------------------------------------------------
(* chunker.js *)

maxChars == 2400
minChunkLength == 100
minContentLength == 300
maxChunksPerCity == 30

signalKeywords ==
    << <<"residents">>, <<"community">>, <<"neighbourhood">>,
       <<"neighborhood">>, <<"public", "concerns">>, <<"complaints">>,
       <<"feedback">>, <<"issues">>, <<"residents">>, <<"citizens">>,
       <<"public", "input">>, <<"stakeholder">>, <<"engagement">> >>

LongSentence(s) == TextLen(Trim(s)) > 10

SignalSentence(s) ==
    \E k \in 1..Len(signalKeywords) : Includes(s, signalKeywords[k])

hasCommunitySignal(text) ==
    LET sentences == SelectSeq(SplitSentences(text), LongSentence)
        signalSentences == SelectSeq(sentences, SignalSentence)
    IN  Len(signalSentences) >= 2

boilerplatePatterns ==
    << <<"attendance", "roll">>, <<"present", "vote">>,
       <<"motion", "carried">>, <<"seconded", "motion">>,
       <<"unanimously", "approved">>, <<"roll", "call">>,
       <<"voting", "record">>, <<"ayes", "nays">>, <<"call", "question">>,
       <<"vote", "result">>, <<"carried", "unanimously">>,
       <<"resolved", "that">> >>

\* boilerplateLength / textLength > 0.3 with boilerplateLength = 50 * matches;
\* 0 / 0 is NaN, which is not greater than 0.3
isProceduralBoilerplate(text) ==
    LET boilerplateMatches ==
            Cardinality({ k \in 1..Len(boilerplatePatterns) :
                            RegexTest(text, boilerplatePatterns[k]) })
        textLength == TextLen(text)
        boilerplateLength == boilerplateMatches * 50
    IN  IF textLength = 0 THEN boilerplateLength > 0
        ELSE 10 * boilerplateLength > 3 * textLength

excludePatterns ==
    << <<"bylaw", "amendment">>, <<"municipal", "code">>,
       <<"zoning", "bylaw">>, <<"financial", "statement">>,
       <<"budget", "allocation">>, <<"tax", "levy">>,
       <<"ceremonial", "opening">>, <<"opening", "prayers">>,
       <<"national", "anthem">>, <<"oath", "office">>,
       <<"swearing", "ceremony">>, <<"legal", "opinion">>,
       <<"contract", "award">>, <<"tender", "process">> >>

isLegalFinancialCeremonial(text) ==
    \E k \in 1..Len(excludePatterns) : RegexTest(text, excludePatterns[k])

highSignalPatterns ==
    << <<"lack", "service">>, <<"absence", "service">>,
       <<"public", "complaint">>, <<"resident", "feedback">>,
       <<"infrastructure", "problem">>, <<"transit", "issue">>,
       <<"housing", "concern">>, <<"healthcare", "problem">>,
       <<"safety", "issue">>, <<"utility", "problem">>,
       <<"community", "engagement">>, <<"stakeholder", "input">>,
       <<"public", "consultation">>, <<"community", "meeting">>,
       <<"resident", "meeting">>, <<"neighbourhood", "concern">>,
       <<"neighborhood", "concern">> >>

LongParagraph(p) == TextLen(Trim(p)) > 50

HighSignalParagraph(p) ==
    \E k \in 1..Len(highSignalPatterns) : RegexTest(p, highSignalPatterns[k])

filterHighSignalParagraphs(text) ==
    LET paragraphs == SelectSeq(SplitParagraphs(text), LongParagraph)
        highSignalParagraphs == SelectSeq(paragraphs, HighSignalParagraph)
    IN  JoinParagraphs(highSignalParagraphs)

lowSignalPatterns ==
    << <<"speaker", "roll", "call">>, <<"motion", "seconded", "carried">>,
       <<"resolved", "unanimously">>, <<"ayes", "nays", "motion">>,
       <<"vote", "recorded", "follows">>, <<"disclaimer", "liability">>,
       <<"terms", "conditions">>, <<"privacy", "policy">>,
       <<"copyright", "notice">>, <<"meeting", "called", "order">>,
       <<"adjournment", "meeting">> >>

\* The replacements are applied one after the other, each to the result of
\* the one before.
RECURSIVE RemovePatterns(_, _)
RemovePatterns(text, k) ==
    IF k > Len(lowSignalPatterns) THEN text
    ELSE RemovePatterns(RegexRemove(text, lowSignalPatterns[k]), k + 1)

removeLowSignalContent(text) == Trim(CollapseWs(RemovePatterns(text, 1)))

NonBlank(s) == TextLen(Trim(s)) > 0

\* The for loop of splitIntoChunks, from sentence i on.
RECURSIVE ChunkLoop(_, _, _, _, _)
ChunkLoop(sentences, i, currentChunk, chunks, limit) ==
    IF i > Len(sentences)
    THEN IF currentChunk # <<>> THEN Append(chunks, Trim(currentChunk))
         ELSE chunks
    ELSE LET trimmedSentence == Trim(sentences[i])
             testChunk == IF currentChunk # <<>>
                          THEN currentChunk \o <<SP>> \o trimmedSentence \o <<DOT>>
                          ELSE trimmedSentence \o <<DOT>>
         IN  IF trimmedSentence = <<>>
             THEN ChunkLoop(sentences, i + 1, currentChunk, chunks, limit)
             ELSE IF TextLen(testChunk) <= limit
             THEN ChunkLoop(sentences, i + 1, testChunk, chunks, limit)
             ELSE ChunkLoop(sentences, i + 1, trimmedSentence \o <<DOT>>,
                            IF currentChunk # <<>>
                            THEN Append(chunks, Trim(currentChunk))
                            ELSE chunks,
                            limit)

\* The candidate chunks, before the minimum-size filter.
CandidateChunks(text, limit) ==
    ChunkLoop(SelectSeq(SplitSentences(text), NonBlank), 1, <<>>, <<>>, limit)

BigEnough(chunk) == TextLen(chunk) > minChunkLength

splitIntoChunks(text, limit) == SelectSeq(CandidateChunks(text, limit), BigEnough)

densityKeywords ==
    << <<"residents">>, <<"community">>, <<"neighbourhood">>,
       <<"neighborhood">>, <<"public", "concerns">>, <<"complaints">>,
       <<"feedback">>, <<"issues">>, <<"residents">>, <<"citizens">>,
       <<"public", "input">>, <<"stakeholder">>, <<"engagement">>,
       <<"lack">>, <<"absence">>, <<"problem">>, <<"concern">>, <<"issue">> >>

\* word.includes(keyword) for some keyword: a word holds no white space, so a
\* keyword of two words is never included in it
KeywordToken(t) ==
    \E k \in 1..Len(densityKeywords) :
        /\ Len(densityKeywords[k]) = 1
        /\ Contains(t.w, densityKeywords[k][1])

\* The indices at which a word of text.split(/\s+/) starts.
WordStarts(text) ==
    { i \in 1..Len(text) : ~IsWs(text[i]) /\ (i = 1 \/ IsWs(text[i - 1])) }

\* words.length: split keeps an empty string before leading and after trailing
\* white space, and "".split(...) is [""]
WordCount(text) ==
    IF text = <<>> THEN 1
    ELSE Cardinality(WordStarts(text))
         + (IF IsWs(text[1]) THEN 1 ELSE 0)
         + (IF IsWs(text[Len(text)]) THEN 1 ELSE 0)

KeywordCount(text) ==
    Cardinality({ i \in WordStarts(text) :
                    \E j \in i..WordEnd(text, i) : KeywordToken(text[j]) })

\* keywordCount / words.length, as the pair <<numerator, denominator>>
calculateKeywordDensity(text) == <<KeywordCount(text), WordCount(text)>>

\* Array.prototype.sort with the comparator of chunkDocuments: the sort is
\* stable, so a chunk comes behind the denser ones and behind the equally
\* dense ones that stood before it.
SortByDensity(chunks) ==
    LET n == Len(chunks)
        dens == AsSeq([ i \in 1..n |-> calculateKeywordDensity(chunks[i].text) ])
        Denser(i, j) == dens[i][1] * dens[j][2] > dens[j][1] * dens[i][2]
        rank == AsSeq([ i \in 1..n |->
                    1 + Cardinality({ j \in 1..n :
                                        Denser(j, i) \/ (j < i /\ ~Denser(i, j)) }) ])
    IN  AsSeq([ p \in 1..n |-> chunks[CHOOSE i \in 1..n : rank[i] = p] ])

\* Steps 1 and 2 of the loop body: the text that is split, or <<>> with
\* accepted = FALSE when the document is filtered out.
FilteredText(raw_text) ==
    LET narrowed == filterHighSignalParagraphs(raw_text)
    IN  IF narrowed = <<>> \/ TextLen(narrowed) < minContentLength
        THEN removeLowSignalContent(raw_text)
        ELSE narrowed

\* The filters without the minimum-length gate on the filtered text.
DocumentAccepted_NoLengthGate(raw_text) ==
    /\ hasCommunitySignal(raw_text)
    /\ ~isProceduralBoilerplate(raw_text)
    /\ ~isLegalFinancialCeremonial(raw_text)

DocumentAccepted(raw_text) ==
    /\ hasCommunitySignal(raw_text)
    /\ ~isProceduralBoilerplate(raw_text)
    /\ ~isLegalFinancialCeremonial(raw_text)
    /\ TextLen(FilteredText(raw_text)) >= minContentLength

\* The numbering that starts at 0: chunk_index: index instead of index + 1.
DocumentChunks_ZeroBased(municipality, doc, pos) ==
    IF ~DocumentAccepted(doc.raw_text) THEN <<>>
    ELSE LET chunks == splitIntoChunks(FilteredText(doc.raw_text), maxChars)
         IN  AsSeq([ i \in 1..Len(chunks) |->
                       [ municipality |-> municipality,
                         source_url   |-> doc.source_url,
                         title        |-> doc.title,
                         chunk_index  |-> i - 1,
                         total_chunks |-> Len(chunks),
                         text         |-> chunks[i],
                         doc          |-> pos ] ])

\* The chunks one document adds to allChunks.  The field doc is not a field
\* of the program's chunk: it records the position of the source document in
\* extractedDocuments.
DocumentChunks(municipality, doc, pos) ==
    IF ~DocumentAccepted(doc.raw_text) THEN <<>>
    ELSE LET chunks == splitIntoChunks(FilteredText(doc.raw_text), maxChars)
         IN  AsSeq([ i \in 1..Len(chunks) |->
                       [ municipality |-> municipality,
                         source_url   |-> doc.source_url,
                         title        |-> doc.title,
                         chunk_index  |-> i,
                         total_chunks |-> Len(chunks),
                         text         |-> chunks[i],
                         doc          |-> pos ] ])

\* allChunks after the for loop over extractedDocuments.
RECURSIVE AccumulatedFrom(_, _, _)
AccumulatedFrom(municipality, docs, pos) ==
    IF pos > Len(docs) THEN <<>>
    ELSE DocumentChunks(municipality, docs[pos], pos)
         \o AccumulatedFrom(municipality, docs, pos + 1)

AccumulatedChunks(aCity, docs) == AccumulatedFrom(aCity.name, docs, 1)

\* The cap that cuts without sorting first.
LimitChunks_NoSort(allChunks) ==
    IF Len(allChunks) > maxChunksPerCity
    THEN SubSeq(allChunks, 1, maxChunksPerCity)
    ELSE allChunks

\* The cap that sorts but forgets the splice.
LimitChunks_NoSplice(allChunks) ==
    IF Len(allChunks) > maxChunksPerCity
    THEN SortByDensity(allChunks)
    ELSE allChunks

\* Step 4: sort and splice(30) when more than 30 chunks accumulated.
LimitChunks(allChunks) ==
    IF Len(allChunks) > maxChunksPerCity
    THEN SubSeq(SortByDensity(allChunks), 1, maxChunksPerCity)
    ELSE allChunks

chunkDocuments(aCity, docs) == LimitChunks(AccumulatedChunks(aCity, docs))

-----------------------------------------------------------------------------
(* discoverer.js *)

(* A URL is a record [host, path], the path a sequence of segments; a link  *)
(* of a page is a record [href, anchor], the href a URL and the anchor the  *)
(* sequence of the words of its text.                                       *)

Url(host, path) == [host |-> host, path |-> path]

RELEVANT_KEYWORDS ==
    << "council", "city-hall", "government", "meetings", "agendas", "minutes",
       "committees", "consultation", "have-your-say" >>

SKIP_KEYWORDS ==
    << "tourism", "recreation", "business", "events", "directory", "services" >>

\* The words of `${url} ${anchorText}`.toLowerCase()
LinkWords(url, anchorText) ==
    {url.host} \cup { url.path[k] : k \in 1..Len(url.path) }
               \cup { anchorText[k] : k \in 1..Len(anchorText) }

\* text.includes(keyword)
TextIncludes(words, keyword) == \E w \in words : Contains(w, keyword)

\* The category with minutes tested before council.
getCategory_MinutesFirst(url, anchorText) ==
    LET text == LinkWords(url, anchorText)
    IN  IF TextIncludes(text, "minutes") THEN "minutes"
        ELSE IF TextIncludes(text, "council") THEN "council"
        ELSE IF TextIncludes(text, "agenda") THEN "agenda"
        ELSE IF TextIncludes(text, "committee") THEN "committee"
        ELSE IF TextIncludes(text, "consultation")
                \/ TextIncludes(text, "have-your-say") THEN "consultation"
        ELSE "other"

\* The category of the last test that matches.
getCategory_LastMatch(url, anchorText) ==
    LET text == LinkWords(url, anchorText)
    IN  IF TextIncludes(text, "consultation")
           \/ TextIncludes(text, "have-your-say") THEN "consultation"
        ELSE IF TextIncludes(text, "committee") THEN "committee"
        ELSE IF TextIncludes(text, "agenda") THEN "agenda"
        ELSE IF TextIncludes(text, "minutes") THEN "minutes"
        ELSE IF TextIncludes(text, "council") THEN "council"
        ELSE "other"

getCategory(url, anchorText) ==
    LET text == LinkWords(url, anchorText)
    IN  IF TextIncludes(text, "council") THEN "council"
        ELSE IF TextIncludes(text, "minutes") THEN "minutes"
        ELSE IF TextIncludes(text, "agenda") THEN "agenda"
        ELSE IF TextIncludes(text, "committee") THEN "committee"
        ELSE IF TextIncludes(text, "consultation")
                \/ TextIncludes(text, "have-your-say") THEN "consultation"
        ELSE "other"

CategoryIdle ==
    /\ categoryLink = [href |-> [host |-> "", path |-> <<>>], anchor |-> <<>>]
    /\ categoryReturned = <<>>

\* The test without the skip keywords.
isRelevant_NoSkip(url, anchorText) ==
    LET text == LinkWords(url, anchorText)
    IN  \E k \in 1..Len(RELEVANT_KEYWORDS) :
            TextIncludes(text, RELEVANT_KEYWORDS[k])

isRelevant(url, anchorText) ==
    LET text == LinkWords(url, anchorText)
        hasRelevant == \E k \in 1..Len(RELEVANT_KEYWORDS) :
                          TextIncludes(text, RELEVANT_KEYWORDS[k])
        hasSkip == \E k \in 1..Len(SKIP_KEYWORDS) :
                      TextIncludes(text, SKIP_KEYWORDS[k])
    IN  hasRelevant /\ ~hasSkip

isSameDomain(baseUrl, url) == baseUrl.host = url.host

maxDepth == 3

\* results.filter((item, index, self) =>
\*     index === self.findIndex(t => t.url === item.url))
FirstOfItsUrl(list, index) ==
    \A k \in 1..(index - 1) : list[k].url # list[index].url

\* The filter that keeps the last entry of every URL.
uniqueResults_KeepLast(list) ==
    LET kept == Sorted({ index \in 1..Len(list) :
                           \A k \in (index + 1)..Len(list) :
                               list[k].url # list[index].url })
    IN  AsSeq([ k \in 1..Len(kept) |-> list[kept[k]] ])

\* The list as it is, duplicates included.
uniqueResults_NoFilter(list) == list

uniqueResults(list) ==
    LET kept == Sorted({ index \in 1..Len(list) : FirstOfItsUrl(list, index) })
    IN  AsSeq([ k \in 1..Len(kept) |-> list[kept[k]] ])

\* robots: null, or the parsed policy with the URLs it disallows
NoRobots == [parsed |-> FALSE, disallow |-> {}]
Policy(disallow) == [parsed |-> TRUE, disallow |-> disallow]

\* robots && !robots.isAllowed(url, 'ClineBot/1.0')
Blocked(policy, url) == policy.parsed /\ url \in policy.disallow

\* A failed download taken for a policy that disallows everything.
RobotsAfterFailure_DenyAll ==
    [parsed |-> TRUE,
     disallow |-> { [host |-> "city.example", path |-> p] :
                      p \in { <<>>, <<"about">>, <<"council">>, <<"meetings">>,
                              <<"council", "minutes">> } }]

\* The outcome of the robots.txt download: robots after the try/catch.
RobotsAfterFailure == NoRobots

RobotsAfter(response) ==
    IF response.ok THEN Policy(response.disallow) ELSE RobotsAfterFailure

\* A promise is settled once: a later resolve() changes nothing.
Pending == [state |-> "pending", value |-> <<>>]
Resolve(p, value) ==
    IF p.state = "pending" THEN [state |-> "resolved", value |-> value] ELSE p

-----------------------------------------------------------------------------
(* The web site that is crawled *)

Host == "city.example"
Home == Url(Host, <<>>)
Council == Url(Host, <<"council">>)
Minutes == Url(Host, <<"council", "minutes">>)
Year == Url(Host, <<"council", "minutes", "2024">>)
January == Url(Host, <<"council", "minutes", "2024", "january">>)
Meetings == Url(Host, <<"meetings">>)
About == Url(Host, <<"about">>)
Tourism == Url(Host, <<"tourism", "council-events">>)
Elsewhere == Url("other.example", <<"council">>)
MinutesPdf == Url(Host, <<"council", "minutes-2024.pdf">>)

Link(href, anchor) == [href |-> href, anchor |-> anchor]

\* The links of the page at a URL, in document order.
PageLinks(url) ==
    CASE url = Home ->
            << Link(Council, <<"council">>),
               Link(Tourism, <<"events">>),
               Link(Elsewhere, <<"council">>),
               Link(Meetings, <<"minutes">>),
               Link(Url("", <<"about">>), <<"about">>) >>
      [] url = Council ->
            << Link(Minutes, <<"minutes">>), Link(Council, <<"council">>),
               Link(Meetings, <<"meetings">>) >>
      [] url = Minutes -> << Link(Year, <<"2024", "agendas">>) >>
      [] url = Year ->
            << Link(January, <<"january">>),
               Link(MinutesPdf, <<"2024", "council", "minutes">>) >>
      [] url = About ->
            << Link(Meetings, <<"agendas">>), Link(Home, <<"home">>) >>
      [] OTHER -> <<>>

\* What a robots.txt of the site may disallow.
Policies == { {}, {About, Meetings}, {Council} }

RobotsResponses ==
    { [ok |-> FALSE, disallow |-> {}] }
    \cup { [ok |-> TRUE, disallow |-> d] : d \in Policies }

RobotsUrl(baseUrl) == Url(baseUrl.host, <<"robots.txt">>)

Request(by, url) == [by |-> by, url |-> url]

NoCity == [name |-> "Nowhere", website |-> Url("", <<>>)]
HasWebsite(c) == c.website.host # ""

\* A website that is not a string (a number in the list of cities):
\* baseUrl.replace is not a function
NotAString == "<number>"
BrokenCity == [name |-> "Broken", website |-> Url(NotAString, <<>>)]

-----------------------------------------------------------------------------
(* discoverRelevantPages: crawl() and the timer *)

\* The loop that takes up a queue entry although its URL was visited.
LoopHead_Revisits(q, seen, policy, log) ==
    IF q = <<>>
    THEN [next |-> "exit", queue |-> q, visited |-> seen,
          cur |-> [url |-> Home, depth |-> 0], log |-> log]
    ELSE [next |-> "fetch", queue |-> Tail(q),
          visited |-> seen \cup {Head(q).url}, cur |-> Head(q),
          log |-> Append(log, [op |-> "fetch", url |-> Head(q).url,
                               depth |-> Head(q).depth])]

\* The while loop from its condition to the next await: entries that were
\* visited, are too deep or are disallowed are passed over in the same turn.
RECURSIVE LoopHead(_, _, _, _)
LoopHead(q, seen, policy, log) ==
    IF q = <<>>
    THEN [next |-> "exit", queue |-> q, visited |-> seen,
          cur |-> [url |-> Home, depth |-> 0], log |-> log]
    ELSE LET item == Head(q)
         IN  IF item.url \in seen \/ item.depth > maxDepth
             THEN LoopHead(Tail(q), seen, policy, log)
             ELSE IF Blocked(policy, item.url)
             THEN LoopHead(Tail(q), seen \cup {item.url}, policy,
                           Append(log, [op |-> "blocked", url |-> item.url,
                                        depth |-> item.depth]))
             ELSE [next |-> "fetch", queue |-> Tail(q),
                   visited |-> seen \cup {item.url}, cur |-> item,
                   log |-> Append(log, [op |-> "fetch", url |-> item.url,
                                        depth |-> item.depth])]

\* normalizeUrl: an absolute href is kept, a relative one (no host) is
\* resolved against the page
normalizeUrl(pageUrl, href) ==
    IF href.host # "" THEN href ELSE Url(pageUrl.host, href.path)

\* The scan that enqueues a link whatever the depth of its page.
ScanLink_AnyDepth(page, link, st) ==
    LET normalizedUrl == normalizeUrl(page.url, link.href)
    IN  IF ~isSameDomain(city.website, normalizedUrl) THEN st
        ELSE [ results |->
                 IF isRelevant(normalizedUrl, link.anchor)
                 THEN Append(st.results,
                             [ municipality |-> city.name,
                               category |-> getCategory(normalizedUrl, link.anchor),
                               url |-> normalizedUrl ])
                 ELSE st.results,
               queue |->
                 IF normalizedUrl \notin visited
                 THEN Append(st.queue, [url |-> normalizedUrl,
                                        depth |-> page.depth + 1])
                 ELSE st.queue ]

\* $('a[href]').each(...): what one link adds to results and to the queue.
ScanLink(page, link, st) ==
    LET normalizedUrl == normalizeUrl(page.url, link.href)
    IN  IF ~isSameDomain(city.website, normalizedUrl) THEN st
        ELSE [ results |->
                 IF isRelevant(normalizedUrl, link.anchor)
                 THEN Append(st.results,
                             [ municipality |-> city.name,
                               category |-> getCategory(normalizedUrl, link.anchor),
                               url |-> normalizedUrl ])
                 ELSE st.results,
               queue |->
                 IF normalizedUrl \notin visited /\ page.depth < maxDepth
                 THEN Append(st.queue, [url |-> normalizedUrl,
                                        depth |-> page.depth + 1])
                 ELSE st.queue ]

RECURSIVE ScanLinks(_, _, _, _)
ScanLinks(page, links, k, st) ==
    IF k > Len(links) THEN st
    ELSE ScanLinks(page, links, k + 1, ScanLink(page, links[k], st))

\* The crawl whose loop does not test timeoutReached.
ContinueCrawl_IgnoresTimer(q, seen, policy, requests, log) ==
    LET h == LoopHead(q, seen, policy, log)
    IN  /\ queue' = h.queue
        /\ visited' = h.visited
        /\ dlog' = h.log
        /\ IF h.next = "fetch"
           THEN /\ cur' = h.cur
                /\ dpc' = "fetch"
                /\ inflight' = requests \cup {Request("discoverer", h.cur.url)}
                /\ UNCHANGED <<promise, timeout>>
           ELSE /\ dpc' = "done"
                /\ inflight' = requests
                /\ UNCHANGED <<cur, promise, timeout>>

\* The crawl that resolves at the end of the loop and leaves the timer armed.
ContinueCrawl_TimerLeftArmed(q, seen, policy, requests, log) ==
    IF timeoutReached
    THEN /\ queue' = q
         /\ visited' = seen
         /\ dlog' = log
         /\ dpc' = "done"
         /\ inflight' = requests
         /\ UNCHANGED <<cur, promise, timeout>>
    ELSE LET h == LoopHead(q, seen, policy, log)
         IN  /\ queue' = h.queue
             /\ visited' = h.visited
             /\ dlog' = h.log
             /\ IF h.next = "fetch"
                THEN /\ cur' = h.cur
                     /\ dpc' = "fetch"
                     /\ inflight' = requests \cup {Request("discoverer", h.cur.url)}
                     /\ UNCHANGED <<promise, timeout>>
                ELSE /\ dpc' = "done"
                     /\ promise' = Resolve(promise, uniqueResults(results))
                     /\ inflight' = requests
                     /\ UNCHANGED <<cur, timeout>>

\* crawl() runs on from the loop condition: it issues the next page request,
\* or leaves the loop and, unless the timer fired, resolves and clears it.
ContinueCrawl(q, seen, policy, requests, log) ==
    IF timeoutReached
    THEN /\ queue' = q
         /\ visited' = seen
         /\ dlog' = log
         /\ dpc' = "done"
         /\ inflight' = requests
         /\ UNCHANGED <<cur, promise, timeout>>
    ELSE LET h == LoopHead(q, seen, policy, log)
         IN  /\ queue' = h.queue
             /\ visited' = h.visited
             /\ dlog' = h.log
             /\ IF h.next = "fetch"
                THEN /\ cur' = h.cur
                     /\ dpc' = "fetch"
                     /\ inflight' = requests \cup {Request("discoverer", h.cur.url)}
                     /\ UNCHANGED <<promise, timeout>>
                ELSE /\ dpc' = "done"
                     /\ promise' = Resolve(promise, uniqueResults(results))
                     /\ timeout' = "cleared"
                     /\ inflight' = requests
                     /\ UNCHANGED cur

\* discoverRelevantPages(city) up to its first await: without a website it
\* returns []; otherwise it arms the timer and crawl() requests robots.txt.
\* When baseUrl.replace throws, the catch of crawl() clears the timer and
\* resolves with [].
DiscoverCall(aCity) ==
    /\ dpc = "idle"
    /\ IF ~HasWebsite(aCity)
       THEN /\ promise' = Resolve(Pending, <<>>)
            /\ dpc' = "done"
            /\ UNCHANGED <<timeout, inflight>>
       ELSE IF aCity.website.host = NotAString
       THEN /\ promise' = Resolve(Pending, <<>>)
            /\ timeout' = "cleared"
            /\ dpc' = "done"
            /\ UNCHANGED inflight
       ELSE /\ promise' = Pending
            /\ timeout' = "armed"
            /\ dpc' = "robots"
            /\ inflight' = inflight \cup {Request("discoverer", RobotsUrl(aCity.website))}
    /\ UNCHANGED <<queue, visited, results, robots, timeoutReached, cur, dlog,
                   resultsAtTimeout>>

\* The robots.txt request is answered or fails; the queue is seeded with the
\* base URL and the loop starts.
DiscoverRobots ==
    /\ dpc = "robots"
    /\ \E response \in RobotsResponses :
          /\ robots' = RobotsAfter(response)
          /\ ContinueCrawl(<<[url |-> city.website, depth |-> 0]>>, visited,
                           RobotsAfter(response),
                           inflight \ {Request("discoverer", RobotsUrl(city.website))},
                           Append(dlog, [op |-> IF response.ok THEN "robots"
                                                ELSE "robots_failed",
                                         url |-> RobotsUrl(city.website),
                                         depth |-> 0]))
    /\ UNCHANGED <<results, timeoutReached, resultsAtTimeout>>

\* The page request is answered (its links are scanned) or fails (the page
\* contributes nothing); crawl() then waits one second.
DiscoverPage ==
    /\ dpc = "fetch"
    /\ \E ok \in BOOLEAN :
          LET st == IF ok
                    THEN ScanLinks(cur, PageLinks(cur.url), 1,
                                   [results |-> results, queue |-> queue])
                    ELSE [results |-> results, queue |-> queue]
          IN  /\ results' = st.results
              /\ queue' = st.queue
    /\ inflight' = inflight \ {Request("discoverer", cur.url)}
    /\ dpc' = "delay"
    /\ UNCHANGED <<visited, robots, timeoutReached, timeout, promise, cur, dlog,
                   resultsAtTimeout>>

\* await delay(1000) is over.
DiscoverDelay ==
    /\ dpc = "delay"
    /\ ContinueCrawl(queue, visited, robots, inflight, dlog)
    /\ UNCHANGED <<results, robots, timeoutReached, resultsAtTimeout>>

\* The 3-minute timer fires while crawl() is suspended in the loop.  (The
\* robots.txt request ends within its own 5 s timeout, long before.)
DiscoverTimeout ==
    /\ timeout = "armed"
    /\ dpc \in {"fetch", "delay"}
    /\ timeoutReached' = TRUE
    /\ timeout' = "fired"
    /\ promise' = Resolve(promise, uniqueResults(results))
    /\ resultsAtTimeout' = results
    /\ UNCHANGED <<queue, visited, results, robots, cur, dpc, dlog, inflight>>

DiscoverIdle ==
    /\ queue = <<>>
    /\ visited = {}
    /\ results = <<>>
    /\ robots = NoRobots
    /\ timeoutReached = FALSE
    /\ timeout = "unset"
    /\ promise = Pending
    /\ cur = [url |-> Home, depth |-> 0]
    /\ dpc = "idle"
    /\ dlog = <<>>
    /\ resultsAtTimeout = <<>>

-----------------------------------------------------------------------------
(* extractor.js: extractDocuments *)

maxConsecutiveFailures == 5

commonWords ==
    { "home", "about", "contact", "menu", "navigation", "footer", "copyright" }

\* commonWords.includes(word.toLowerCase()) for the word that starts at i: the
\* word is one of the common words, with nothing attached to it
IsCommonWord(text, i) ==
    /\ WordEnd(text, i) = i
    /\ text[i].w \in commonWords
    /\ text[i].n = Len(text[i].w)

\* The test with >= for >.
isQualityContent_AtLeast(text) ==
    IF TextLen(text) < 300 THEN FALSE
    ELSE LET commonWordCount ==
                 Cardinality({ i \in WordStarts(text) : IsCommonWord(text, i) })
         IN  ~(10 * commonWordCount >= 3 * WordCount(text))

\* commonWordCount > words.length * 0.3, in tenths
isQualityContent(text) ==
    IF TextLen(text) < 300 THEN FALSE
    ELSE LET commonWordCount ==
                 Cardinality({ i \in WordStarts(text) : IsCommonWord(text, i) })
         IN  ~(10 * commonWordCount > 3 * WordCount(text))

QualityIdle ==
    /\ qualityText = <<>>
    /\ qualityDecisions = <<>>

PdfSegments == {"minutes-2024.pdf"}

isPdfUrl(url) == url.path # <<>> /\ url.path[Len(url.path)] \in PdfSegments

\* What the request and the extraction of one page come to: the request or
\* the parsing throws, isQualityContent rejects the text, or a document.
PageOutcomes == {"fetch_error", "parse_error", "low_quality", "document"}

\* The outcomes after which consecutiveFailures is incremented.
CountsAsFailure(outcome) ==
    outcome \in {"fetch_error", "parse_error", "low_quality"}

\* The outcomes after which the loop goes on without await delay(1000).
SkipsDelay(outcome) == outcome = "low_quality"

\* The loop that requests a link whatever the policy says.
ExtractLoopHead_IgnoresPolicy(k, policy, log) ==
    IF k > Len(discoveredUrls) THEN [next |-> "exit", xi |-> k, log |-> log]
    ELSE [next |-> "fetch", xi |-> k, log |-> log]

\* The for loop from link k to the next await: links the policy disallows
\* are passed over in the same turn.
RECURSIVE ExtractLoopHead(_, _, _)
ExtractLoopHead(k, policy, log) ==
    IF k > Len(discoveredUrls) THEN [next |-> "exit", xi |-> k, log |-> log]
    ELSE IF Blocked(policy, discoveredUrls[k].url)
    THEN ExtractLoopHead(k + 1, policy,
                         Append(log, [url |-> discoveredUrls[k].url,
                                      outcome |-> "blocked"]))
    ELSE [next |-> "fetch", xi |-> k, log |-> log]

\* extractDocuments runs on with link k: the next page request, or the return.
ContinueExtract(k, policy, requests, log) ==
    LET h == ExtractLoopHead(k, policy, log)
    IN  /\ xi' = h.xi
        /\ xlog' = h.log
        /\ IF h.next = "fetch"
           THEN /\ xpc' = "fetch"
                /\ inflight' = requests
                       \cup {Request("extractor", discoveredUrls[h.xi].url)}
           ELSE /\ xpc' = "done"
                /\ inflight' = requests

\* extractDocuments(city, discoveredUrls) up to its first await.  Without a
\* website baseUrl.replace throws inside the outer try: [] is returned.
ExtractCall(aCity, urls) ==
    /\ xpc = "idle"
    /\ discoveredUrls' = urls
    /\ IF urls = <<>> \/ ~HasWebsite(aCity)
       THEN /\ xpc' = "done"
            /\ UNCHANGED inflight
       ELSE /\ xpc' = "robots"
            /\ inflight' = inflight \cup {Request("extractor", RobotsUrl(aCity.website))}
    /\ UNCHANGED <<documents, consecutiveFailures, xrobots, xi, xlog>>

ExtractRobots ==
    /\ xpc = "robots"
    /\ \E response \in RobotsResponses :
          /\ xrobots' = RobotsAfter(response)
          /\ ContinueExtract(1, RobotsAfter(response),
                             inflight \ {Request("extractor", RobotsUrl(city.website))},
                             Append(xlog, [url |-> RobotsUrl(city.website),
                                           outcome |-> IF response.ok THEN "robots"
                                                       ELSE "robots_failed"]))
    /\ UNCHANGED <<discoveredUrls, documents, consecutiveFailures>>

\* The page request of link xi ends.
ExtractPage ==
    /\ xpc = "fetch"
    /\ \E outcome \in PageOutcomes :
          LET url == discoveredUrls[xi].url
              failures == IF CountsAsFailure(outcome)
                          THEN consecutiveFailures + 1 ELSE 0
              requests == inflight \ {Request("extractor", url)}
              log == Append(xlog, [url |-> url, outcome |-> outcome])
          IN  /\ consecutiveFailures' = failures
              /\ documents' =
                    IF outcome = "document"
                    THEN Append(documents,
                                [ municipality |-> city.name,
                                  source_url |-> url,
                                  content_type |->
                                      IF isPdfUrl(url) THEN "pdf" ELSE "html" ])
                    ELSE documents
              /\ IF CountsAsFailure(outcome) /\ failures >= maxConsecutiveFailures
                 THEN /\ xpc' = "done"
                      /\ inflight' = requests
                      /\ xlog' = log
                      /\ UNCHANGED xi
                 ELSE IF SkipsDelay(outcome)
                 THEN ContinueExtract(xi + 1, xrobots, requests, log)
                 ELSE /\ xpc' = "delay"
                      /\ inflight' = requests
                      /\ xlog' = log
                      /\ UNCHANGED xi
    /\ UNCHANGED <<discoveredUrls, xrobots>>

\* await delay(1000) is over.
ExtractDelay ==
    /\ xpc = "delay"
    /\ ContinueExtract(xi + 1, xrobots, inflight, xlog)
    /\ UNCHANGED <<discoveredUrls, documents, consecutiveFailures, xrobots>>

ExtractIdle ==
    /\ discoveredUrls = <<>>
    /\ documents = <<>>
    /\ consecutiveFailures = 0
    /\ xrobots = NoRobots
    /\ xi = 0
    /\ xpc = "idle"
    /\ xlog = <<>>

ChunkIdle ==
    /\ extractedDocuments = <<>>
    /\ chunkOut = <<>>
    /\ cpc = "idle"

-----------------------------------------------------------------------------
(* analyzer.js: analyzeChunk, deduplicateConcerns and analyzeChunks *)

\* The value of a field that the parsed JSON does not have
Undefined == "<undefined>"

categories ==
    { "housing", "transit", "healthcare", "infrastructure", "safety",
      "utilities", "social", "other" }

severityOrder == [ low |-> 1, medium |-> 2, high |-> 3 ]

\* s.toLowerCase().trim() of the strings that occur in the responses
LowerTrim(s) ==
    CASE s = "Potholes" -> "potholes"
      [] s = " potholes " -> "potholes"
      [] s = "Ward 1" -> "ward 1"
      [] s = "Potholes_Ward 1" -> "potholes_ward 1"
      [] OTHER -> s

\* The callback of parsed.concerns.filter
IsValidConcern(concern) ==
    /\ concern.description \notin { Undefined, "" }
    /\ concern.category \notin { Undefined, "" }
    /\ concern.category \in categories
    /\ concern.severity \in DOMAIN severityOrder

\* What analyzeChunk returns for a response of the classifier.  The response
\* is text without braces, braces that JSON.parse rejects, JSON without a
\* concerns array, or JSON with a concerns array; an element of the array is
\* an object or null, and reading a field of null throws inside the try.
analyzeChunk(response) ==
    IF response.kind = "text" THEN <<>>
    ELSE IF response.kind = "malformed" THEN <<>>
    ELSE IF response.kind = "object" THEN <<>>
    ELSE IF \E i \in 1..Len(response.concerns) :
                response.concerns[i].json = "null" THEN <<>>
    ELSE SelectSeq(response.concerns, IsValidConcern)

\* The key of a concern in the Set seen
ConcernKey(concern) ==
    LowerTrim(concern.description) \o "_" \o LowerTrim(concern.location)

\* The callback of unique.findIndex
SameConcern(a, b) ==
    /\ LowerTrim(a.description) = LowerTrim(b.description)
    /\ LowerTrim(a.location) = LowerTrim(b.location)

\* The loop that replaces the kept concern by every later duplicate that is
\* not of lower severity.
RECURSIVE DeduplicateFrom_AtLeast(_, _, _, _)
DeduplicateFrom_AtLeast(concerns, i, seen, unique) ==
    IF i > Len(concerns) THEN unique
    ELSE LET concern == concerns[i]
             key == ConcernKey(concern)
             same == { k \in 1..Len(unique) : SameConcern(unique[k], concern) }
         IN  IF key \notin seen
             THEN DeduplicateFrom_AtLeast(concerns, i + 1, seen \cup {key},
                                          Append(unique, concern))
             ELSE IF same = {}
             THEN DeduplicateFrom_AtLeast(concerns, i + 1, seen, unique)
             ELSE LET existingIndex == Min(same)
                  IN  IF severityOrder[concern.severity]
                           >= severityOrder[unique[existingIndex].severity]
                      THEN DeduplicateFrom_AtLeast(concerns, i + 1, seen,
                               [unique EXCEPT ![existingIndex] = concern])
                      ELSE DeduplicateFrom_AtLeast(concerns, i + 1, seen, unique)

\* The loop of deduplicateConcerns from concern i on.  findIndex returns -1
\* when the key was seen and no kept concern has the description and the
\* location of the concern.
RECURSIVE DeduplicateFrom(_, _, _, _)
DeduplicateFrom(concerns, i, seen, unique) ==
    IF i > Len(concerns) THEN unique
    ELSE LET concern == concerns[i]
             key == ConcernKey(concern)
             same == { k \in 1..Len(unique) : SameConcern(unique[k], concern) }
         IN  IF key \notin seen
             THEN DeduplicateFrom(concerns, i + 1, seen \cup {key},
                                  Append(unique, concern))
             ELSE IF same = {}
             THEN DeduplicateFrom(concerns, i + 1, seen, unique)
             ELSE LET existingIndex == Min(same)
                  IN  IF severityOrder[concern.severity]
                           > severityOrder[unique[existingIndex].severity]
                      THEN DeduplicateFrom(concerns, i + 1, seen,
                               [unique EXCEPT ![existingIndex] = concern])
                      ELSE DeduplicateFrom(concerns, i + 1, seen, unique)

\* deduplicateConcerns with the loop that replaces on equal severity.
deduplicateConcerns_AtLeast(concerns) ==
    IF \E i \in 1..Len(concerns) : concerns[i].location = Undefined
    THEN [throws |-> TRUE, value |-> <<>>]
    ELSE [throws |-> FALSE,
          value |-> DeduplicateFrom_AtLeast(concerns, 1, {}, <<>>)]

\* deduplicateConcerns: concern.location.toLowerCase() is a TypeError when the
\* concern has no location
deduplicateConcerns(concerns) ==
    IF \E i \in 1..Len(concerns) : concerns[i].location = Undefined
    THEN [throws |-> TRUE, value |-> <<>>]
    ELSE [throws |-> FALSE, value |-> DeduplicateFrom(concerns, 1, {}, <<>>)]

DedupIdle ==
    /\ dedupConcerns = <<>>
    /\ dedupReturned = <<>>

AnalyzeIdle ==
    /\ responses = <<>>
    /\ ai = 0
    /\ allConcerns = <<>>
    /\ analyzed = "idle"

\* One iteration of the loop of analyzeChunks, its pause included
AnalyzeOneChunk ==
    /\ analyzed = "running"
    /\ ai <= Len(responses)
    /\ allConcerns' = allConcerns \o analyzeChunk(responses[ai])
    /\ ai' = ai + 1
    /\ UNCHANGED <<responses, analyzed>>

\* After the loop: deduplicate and return, unless deduplicateConcerns throws
AnalyzeReturn ==
    /\ analyzed = "running"
    /\ ai > Len(responses)
    /\ LET uniqueConcerns == deduplicateConcerns(allConcerns)
       IN  analyzed' = IF uniqueConcerns.throws THEN "thrown" ELSE "returned"
    /\ UNCHANGED <<responses, ai, allConcerns>>

-----------------------------------------------------------------------------
(* summarization.ts: initializeAI and the two functions that call it *)

\* null
Null == "null"

\* process.env.AI_PROVIDER || 'auto'
Provider == IF env.AI_PROVIDER = "" THEN "auto" ELSE env.AI_PROVIDER

\* initializeAI: what it returns and the module variables it leaves.  gemini
\* and openai say whether the dynamic import and the constructor of the
\* package succeed ("ok") or throw.
initializeAI(gemini, openai) ==
    LET tryGemini == /\ Provider \in { "gemini", "auto" }
                     /\ env.GEMINI_API_KEY
                     /\ genAI = Null
        tryOpenAI == /\ Provider \in { "openai", "auto" }
                     /\ env.OPENAI_API_KEY
                     /\ openaiClient = Null
    IN  IF tryGemini /\ gemini = "ok"
        THEN [ provider |-> "gemini", available |-> TRUE,
               genAI |-> "GoogleGenerativeAI", geminiModel |-> "gemini-1.0-pro",
               openaiClient |-> openaiClient ]
        ELSE IF tryOpenAI /\ openai = "ok"
        THEN [ provider |-> "openai", available |-> TRUE,
               genAI |-> genAI, geminiModel |-> geminiModel,
               openaiClient |-> "OpenAI" ]
        ELSE [ provider |-> Null, available |-> FALSE,
               genAI |-> genAI, geminiModel |-> geminiModel,
               openaiClient |-> openaiClient ]

\* Who wrote the text that is returned: the provider initializeAI named, or
\* the fallback when none is available or the request throws.
AnsweredBy(init, request) ==
    IF ~init.available THEN "fallback"
    ELSE IF request = "throws" THEN "fallback"
    ELSE init.provider

\* generateCompanySpecificSummary or generateCompanyInsights, from the await
\* of initializeAI to the return.
Generate(fn, gemini, openai, request) ==
    LET init == initializeAI(gemini, openai)
    IN  /\ genAI' = init.genAI
        /\ geminiModel' = init.geminiModel
        /\ openaiClient' = init.openaiClient
        /\ aiLog' = Append(aiLog, [ fn |-> fn, initialized |-> TRUE,
                                    provider |-> init.provider,
                                    available |-> init.available,
                                    answered |-> AnsweredBy(init, request) ])
        /\ UNCHANGED env

\* generateCompanyInsights with an empty list returns before initializeAI.
NoMunicipalityData ==
    /\ aiLog' = Append(aiLog, [ fn |-> "generateCompanyInsights",
                                initialized |-> FALSE, provider |-> Null,
                                available |-> FALSE, answered |-> "no_data" ])
    /\ UNCHANGED <<env, genAI, geminiModel, openaiClient>>

NoEnv == [ AI_PROVIDER |-> "", GEMINI_API_KEY |-> FALSE, OPENAI_API_KEY |-> FALSE ]

Unused ==
    /\ genAI = Null
    /\ geminiModel = Null
    /\ openaiClient = Null
    /\ aiLog = <<>>

SummarizeIdle ==
    /\ env = NoEnv
    /\ Unused

-----------------------------------------------------------------------------
(* pipeline.js: processCity and runFullPipeline *)

snapshotEvery == 5

\* What a stage hands back to processCity: a list, of which processCity
\* reads the length, or an exception with its message.
Returned(n) == [throws |-> FALSE, n |-> n, message |-> ""]
Thrown(message) == [throws |-> TRUE, n |-> 0, message |-> message]

\* Every early exit reports the reason of the first one.
Skipped_OneReason(aCity, reason) ==
    [city |-> aCity.name, status |-> "skipped", reason |-> "no_urls_discovered",
     concerns |-> <<>>]

Skipped(aCity, reason) ==
    [city |-> aCity.name, status |-> "skipped", reason |-> reason,
     concerns |-> <<>>]

Failed(aCity, message) ==
    [city |-> aCity.name, status |-> "error", error |-> message,
     concerns |-> <<>>]

Completed(aCity, out, concerns) ==
    [city |-> aCity.name, status |-> "completed",
     urls_discovered |-> out.urls, documents_extracted |-> out.documents,
     chunks_created |-> out.chunks, concerns_count |-> Len(concerns),
     concerns |-> concerns]

\* The history of the stages: a stage is called, and returns or throws.
Call(log, stage) ==
    Append(log, [city |-> pi, stage |-> stage, event |-> "call", n |-> 0])
Back(log, stage, outcome) ==
    Append(log, [city |-> pi, stage |-> stage,
                 event |-> IF outcome.throws THEN "throw" ELSE "return",
                 n |-> outcome.n])

RECURSIVE TotalConcerns(_)
TotalConcerns(list) ==
    IF list = <<>> THEN 0
    ELSE (IF list[1].status = "completed" THEN list[1].concerns_count ELSE 0)
         + TotalConcerns(Tail(list))

\* The loop that is left when a city ended in an error.
ProcessCityReturns_StopsOnError(result) ==
    LET all == Append(pipelineResults, result)
        c == completed + (IF result.status = "completed" THEN 1 ELSE 0)
        k == skipped + (IF result.status = "skipped" THEN 1 ELSE 0)
        e == errors + (IF result.status = "error" THEN 1 ELSE 0)
    IN  /\ pipelineResults' = all
        /\ completed' = c
        /\ skipped' = k
        /\ errors' = e
        /\ snapshots' = IF pi % snapshotEvery = 0
                        THEN Append(snapshots, [after |-> pi, results |-> all])
                        ELSE snapshots
        /\ IF pi < Len(cities) /\ result.status # "error"
           THEN /\ pstage' = "pause"
                /\ UNCHANGED summary
           ELSE /\ pstage' = "finished"
                /\ summary' = [ total_cities |-> Len(cities), completed |-> c,
                                skipped |-> k, errors |-> e,
                                total_concerns |-> TotalConcerns(all) ]
        /\ UNCHANGED <<cities, pi>>

\* processCity returns result: runFullPipeline appends it, counts it, writes
\* a snapshot after every fifth city, and then waits 2 s before the next
\* city or, after the last one, writes the summary.
\* The loop that writes its snapshot before it appends the result.
ProcessCityReturns_SnapshotBeforePush(result) ==
    LET all == Append(pipelineResults, result)
        c == completed + (IF result.status = "completed" THEN 1 ELSE 0)
        k == skipped + (IF result.status = "skipped" THEN 1 ELSE 0)
        e == errors + (IF result.status = "error" THEN 1 ELSE 0)
    IN  /\ pipelineResults' = all
        /\ completed' = c
        /\ skipped' = k
        /\ errors' = e
        /\ snapshots' = IF pi % snapshotEvery = 0
                        THEN Append(snapshots, [after |-> pi,
                                                results |-> pipelineResults])
                        ELSE snapshots
        /\ IF pi < Len(cities)
           THEN /\ pstage' = "pause"
                /\ UNCHANGED summary
           ELSE /\ pstage' = "finished"
                /\ summary' = [ total_cities |-> Len(cities), completed |-> c,
                                skipped |-> k, errors |-> e,
                                total_concerns |-> TotalConcerns(all) ]
        /\ UNCHANGED <<cities, pi>>

ProcessCityReturns(result) ==
    LET all == Append(pipelineResults, result)
        c == completed + (IF result.status = "completed" THEN 1 ELSE 0)
        k == skipped + (IF result.status = "skipped" THEN 1 ELSE 0)
        e == errors + (IF result.status = "error" THEN 1 ELSE 0)
    IN  /\ pipelineResults' = all
        /\ completed' = c
        /\ skipped' = k
        /\ errors' = e
        /\ snapshots' = IF pi % snapshotEvery = 0
                        THEN Append(snapshots, [after |-> pi, results |-> all])
                        ELSE snapshots
        /\ IF pi < Len(cities)
           THEN /\ pstage' = "pause"
                /\ UNCHANGED summary
           ELSE /\ pstage' = "finished"
                /\ summary' = [ total_cities |-> Len(cities), completed |-> c,
                                skipped |-> k, errors |-> e,
                                total_concerns |-> TotalConcerns(all) ]
        /\ UNCHANGED <<cities, pi>>

\* processCity goes on within its loop iteration: nothing of runFullPipeline
\* changes.
StillInCity ==
    UNCHANGED <<cities, pi, pipelineResults, completed, skipped, errors,
                snapshots, summary>>

\* processCity goes on after await discoverRelevantPages(city).
AfterDiscover(outcome) ==
    IF outcome.throws
    THEN /\ ProcessCityReturns(Failed(cities[pi], outcome.message))
         /\ plog' = Back(plog, "discover", outcome)
         /\ UNCHANGED stageOut
    ELSE /\ stageOut' = [stageOut EXCEPT !.urls = outcome.n]
         /\ IF outcome.n = 0
            THEN /\ ProcessCityReturns(Skipped(cities[pi], "no_urls_discovered"))
                 /\ plog' = Back(plog, "discover", outcome)
            ELSE /\ pstage' = "extract"
                 /\ plog' = Call(Back(plog, "discover", outcome), "extract")
                 /\ StillInCity

\* processCity goes on after await extractDocuments(city, discoveredUrls):
\* chunkDocuments is called in the same turn, and returns or throws.
AfterExtract(outcome, chunked) ==
    LET log == Back(plog, "extract", outcome)
        chunkLog == Back(Call(log, "chunk"), "chunk", chunked)
    IN  IF outcome.throws
        THEN /\ ProcessCityReturns(Failed(cities[pi], outcome.message))
             /\ plog' = log
             /\ UNCHANGED stageOut
        ELSE IF outcome.n = 0
        THEN /\ stageOut' = [stageOut EXCEPT !.documents = 0]
             /\ ProcessCityReturns(Skipped(cities[pi], "no_documents_extracted"))
             /\ plog' = log
        ELSE IF chunked.throws
        THEN /\ stageOut' = [stageOut EXCEPT !.documents = outcome.n]
             /\ plog' = chunkLog
             /\ ProcessCityReturns(Failed(cities[pi], chunked.message))
        ELSE /\ stageOut' = [stageOut EXCEPT !.documents = outcome.n,
                                             !.chunks = chunked.n]
             /\ IF chunked.n = 0
                THEN /\ plog' = chunkLog
                     /\ ProcessCityReturns(Skipped(cities[pi], "no_chunks_created"))
                ELSE /\ pstage' = "analyze"
                     /\ plog' = Call(chunkLog, "analyze")
                     /\ StillInCity

\* processCity goes on after await mockAnalyzeChunks(city, chunks).
AfterAnalyze(outcome) ==
    /\ IF outcome.throws
       THEN ProcessCityReturns(Failed(cities[pi], outcome.message))
       ELSE ProcessCityReturns(Completed(cities[pi], stageOut, outcome.concerns))
    /\ plog' = Back(plog, "analyze", outcome)
    /\ UNCHANGED stageOut

\* The loop of runFullPipeline enters processCity for city k, which calls
\* discoverRelevantPages.
EnterCity(k) ==
    /\ pi' = k
    /\ pstage' = "discover"
    /\ stageOut' = [urls |-> 0, documents |-> 0, chunks |-> 0]
    /\ plog' = Append(plog, [city |-> k, stage |-> "discover",
                             event |-> "call", n |-> 0])
    /\ UNCHANGED <<cities, pipelineResults, completed, skipped, errors,
                   snapshots, summary>>

\* runFullPipeline with no city has nothing to loop over.
NoCities ==
    /\ pstage' = "finished"
    /\ summary' = [ total_cities |-> 0, completed |-> 0, skipped |-> 0,
                    errors |-> 0, total_concerns |-> 0 ]
    /\ UNCHANGED <<cities, pi, stageOut, pipelineResults, completed, skipped,
                   errors, snapshots, plog>>

PipelineIdle ==
    /\ pi = 0
    /\ pstage = "idle"
    /\ stageOut = [urls |-> 0, documents |-> 0, chunks |-> 0]
    /\ pipelineResults = <<>>
    /\ completed = 0
    /\ skipped = 0
    /\ errors = 0
    /\ snapshots = <<>>
    /\ summary = <<>>
    /\ plog = <<>>

-----------------------------------------------------------------------------
(* The documents chunkDocuments is applied to *)

MaxPhrases == 3
MaxDocs == 2

Phrases ==
    << <<K("residents"), SP, F(120), DOT, SP>>,
       <<F(90), DOT, PB>>,
       <<K("residents"), SP, K("feedback"), SP, F(140), DOT, PB>>,
       <<K("motion"), SP, K("seconded"), SP, K("carried"), DOT, SP>>,
       <<K("bylaw"), SP, K("amendment"), DOT, SP>>,
       <<F(5000), DOT, SP>>,
       <<K("residents"), SP, K("feedback"), DOT, SP>> >>

RECURSIVE Flatten(_)
Flatten(ps) == IF ps = <<>> THEN <<>> ELSE Phrases[Head(ps)] \o Flatten(Tail(ps))

RECURSIVE Rep(_, _)
Rep(text, k) == IF k = 0 THEN <<>> ELSE text \o Rep(text, k - 1)

\* Every text made of at most MaxPhrases phrases, as a single document.
PhraseDocuments ==
    { [ source_url |-> "https://city.example/council/page",
        title      |-> "Page",
        raw_text   |-> Flatten(ps) ] :
      ps \in UNION { [1..k -> 1..Len(Phrases)] : k \in 0..MaxPhrases } }

\* Documents of many chunks, for the lists of several documents.
LongDocuments ==
    { [ source_url |-> "https://city.example/council/minutes",
        title      |-> "Minutes",
        raw_text   |-> Rep(<<K("residents"), SP, F(1300), DOT, SP>>, 16) ],
      [ source_url |-> "https://city.example/consultation",
        title      |-> "Consultation",
        raw_text   |-> Rep(<<K("residents"), SP, K("feedback"), SP, F(1300),
                             DOT, SP>>, 15) ],
      [ source_url |-> "https://city.example/committees",
        title      |-> "Committees",
        raw_text   |-> Rep(<<K("residents"), SP, F(1000), DOT, SP>>, 5) ],
      [ source_url |-> "https://city.example/council/notes",
        title      |-> "Notes",
        raw_text   |-> Rep(<<K("residents"), SP, F(120), DOT, SP>>, 3) ],
      [ source_url |-> "https://city.example/council/short",
        title      |-> "Short",
        raw_text   |-> Rep(<<K("residents"), SP, F(120), DOT, SP>>, 2) ],
      [ source_url |-> "https://city.example/council/plain",
        title      |-> "Plain",
        raw_text   |-> Rep(<<F(200), DOT, SP>>, 3) ] }

\* Three documents of 15 chunks each, the densest one in the middle.
ThreeDocuments ==
    << [ source_url |-> "https://city.example/council/petition",
         title      |-> "Petition",
         raw_text   |-> Rep(<<K("residents"), SP, F(1300), DOT, SP>>, 15) ],
       [ source_url |-> "https://city.example/council/hearing",
         title      |-> "Hearing",
         raw_text   |-> Rep(<<K("residents"), SP, K("feedback"), SP,
                              K("issues"), SP, F(1300), DOT, SP>>, 15) ],
       [ source_url |-> "https://city.example/consultation",
         title      |-> "Consultation",
         raw_text   |-> Rep(<<K("residents"), SP, K("feedback"), SP, F(1300),
                              DOT, SP>>, 15) ] >>

\* "Motion carried unanimously. Roll call: present." repeated, cut off at
\* 1000 characters.
MotionText ==
    Rep(<<K("motion"), SP, K("carried"), SP, K("unanimously"), DOT, SP,
          K("roll"), SP, [w |-> "call", n |-> 5], SP, K("present"), DOT, SP>>, 20)
    \o <<K("motion"), SP, K("carried"), SP, K("unanimously"), DOT, SP,
         K("roll"), SP, [w |-> "call", n |-> 5], SP, F(1)>>

MotionDocument ==
    [ source_url |-> "https://city.example/council/motions",
      title      |-> "Motions",
      raw_text   |-> MotionText ]

\* A sentence that fills a chunk up to 2391 characters, then a sentence that
\* is 99, 100 or 101 characters long with its terminator.
BoundaryDocuments ==
    { [ source_url |-> "https://city.example/council/report",
        title      |-> "Report",
        raw_text   |-> <<K("residents"), SP, F(2380), DOT, SP,
                         K("community"), SP, F(last), DOT>> ] :
      last \in { 88, 89, 90 } }

DocumentLists ==
    { <<d>> : d \in PhraseDocuments }
    \cup UNION { [1..k -> LongDocuments] : k \in 0..MaxDocs }
    \cup { ThreeDocuments, <<MotionDocument>> }
    \cup { <<d>> : d \in BoundaryDocuments }

City == [name |-> "Toronto", website |-> Home]

-----------------------------------------------------------------------------
(* chunkDocuments applied to a list of documents *)

InitChunk ==
    /\ extractedDocuments \in DocumentLists
    /\ chunkOut = <<>>
    /\ cpc = "idle"
    /\ city = City
    /\ inflight = {}
    /\ DiscoverIdle
    /\ ExtractIdle
    /\ QualityIdle
    /\ AnalyzeIdle
    /\ CategoryIdle
    /\ SummarizeIdle
    /\ DedupIdle
    /\ cities = <<City>>
    /\ PipelineIdle

CallChunkDocuments ==
    /\ cpc = "idle"
    /\ chunkOut' = chunkDocuments(city, extractedDocuments)
    /\ cpc' = "returned"
    /\ UNCHANGED <<extractedDocuments, city, inflight, discVars, extVars, pipeVars,
                   qualVars, anaVars, catVars, sumVars, dedupVars>>

NextChunk == CallChunkDocuments

SpecChunk == InitChunk /\ [][NextChunk]_vars

-----------------------------------------------------------------------------
(* discoverRelevantPages called for one municipality *)

InitDiscover ==
    /\ city \in {City, NoCity, BrokenCity}
    /\ inflight = {}
    /\ DiscoverIdle
    /\ ExtractIdle
    /\ QualityIdle
    /\ AnalyzeIdle
    /\ CategoryIdle
    /\ SummarizeIdle
    /\ DedupIdle
    /\ ChunkIdle
    /\ cities = <<city>>
    /\ PipelineIdle

NextDiscover ==
    \/ DiscoverCall(city) /\ UNCHANGED <<sumVars, dedupVars, catVars, anaVars, qualVars, chunkVars, city, extVars, pipeVars>>
    \/ DiscoverRobots /\ UNCHANGED <<sumVars, dedupVars, catVars, anaVars, qualVars, chunkVars, city, extVars, pipeVars>>
    \/ DiscoverPage /\ UNCHANGED <<sumVars, dedupVars, catVars, anaVars, qualVars, chunkVars, city, extVars, pipeVars>>
    \/ DiscoverDelay /\ UNCHANGED <<sumVars, dedupVars, catVars, anaVars, qualVars, chunkVars, city, extVars, pipeVars>>
    \/ DiscoverTimeout /\ UNCHANGED <<sumVars, dedupVars, catVars, anaVars, qualVars, chunkVars, city, extVars, pipeVars>>

SpecDiscover == InitDiscover /\ [][NextDiscover]_vars

\* The call is made, every request is answered or times out (axios timeouts
\* of 5 s and 10 s), and every delay ends: a step that can be taken is taken.
SpecDiscoverLive == SpecDiscover /\ WF_vars(NextDiscover)

-----------------------------------------------------------------------------
(* extractDocuments called with a list of discovered links *)

MaxLinks == 6

\* The links handed to extractDocuments: distinct URLs of the site.
SiteLinks ==
    << [municipality |-> "Toronto", category |-> "council", url |-> Council],
       [municipality |-> "Toronto", category |-> "council", url |-> Minutes],
       [municipality |-> "Toronto", category |-> "minutes", url |-> Meetings],
       [municipality |-> "Toronto", category |-> "council", url |-> Year],
       [municipality |-> "Toronto", category |-> "council", url |-> January],
       [municipality |-> "Toronto", category |-> "council",
        url |-> Url(Host, <<"council", "minutes-2024.pdf">>)],
       [municipality |-> "Toronto", category |-> "other",
        url |-> Url(Host, <<"government">>)],
       [municipality |-> "Toronto", category |-> "other",
        url |-> Url(Host, <<"city-hall">>)] >>

InitExtract ==
    /\ city \in {City, NoCity}
    /\ inflight = {}
    /\ DiscoverIdle
    /\ ExtractIdle
    /\ QualityIdle
    /\ AnalyzeIdle
    /\ CategoryIdle
    /\ SummarizeIdle
    /\ DedupIdle
    /\ ChunkIdle
    /\ cities = <<city>>
    /\ PipelineIdle

CallExtractDocuments ==
    \E k \in 0..Min({MaxLinks, Len(SiteLinks)}) :
        ExtractCall(city, SubSeq(SiteLinks, 1, k))

NextExtract ==
    \/ CallExtractDocuments /\ UNCHANGED <<sumVars, dedupVars, catVars, anaVars, qualVars, chunkVars, city, discVars, pipeVars>>
    \/ ExtractRobots /\ UNCHANGED <<sumVars, dedupVars, catVars, anaVars, qualVars, chunkVars, city, discVars, pipeVars>>
    \/ ExtractPage /\ UNCHANGED <<sumVars, dedupVars, catVars, anaVars, qualVars, chunkVars, city, discVars, pipeVars>>
    \/ ExtractDelay /\ UNCHANGED <<sumVars, dedupVars, catVars, anaVars, qualVars, chunkVars, city, discVars, pipeVars>>

SpecExtract == InitExtract /\ [][NextExtract]_vars

-----------------------------------------------------------------------------
(* getCategory applied to a link *)

MaxAnchorWords == 2

LinkVocabulary ==
    { "council", "minutes", "agendas", "committees", "consultation",
      "have-your-say", "agenda", "government", "parks" }

CategoryLinks ==
    { Link(Url(Host, path), anchor) :
        path \in {<<>>} \cup { <<w>> : w \in LinkVocabulary },
        anchor \in UNION { [1..n -> LinkVocabulary] : n \in 0..MaxAnchorWords } }

InitCategory ==
    /\ categoryLink \in CategoryLinks
    /\ categoryReturned = <<>>
    /\ SummarizeIdle
    /\ DedupIdle
    /\ QualityIdle
    /\ AnalyzeIdle
    /\ city = NoCity
    /\ inflight = {}
    /\ DiscoverIdle
    /\ ExtractIdle
    /\ ChunkIdle
    /\ cities = <<>>
    /\ PipelineIdle

CallGetCategory ==
    /\ categoryReturned = <<>>
    /\ categoryReturned' =
           <<getCategory(categoryLink.href, AsSeq(categoryLink.anchor))>>
    /\ UNCHANGED <<categoryLink, qualVars, anaVars, chunkVars, city, inflight,
                   discVars, extVars, pipeVars, sumVars, dedupVars>>

NextCategory == CallGetCategory

SpecCategory == InitCategory /\ [][NextCategory]_vars

-----------------------------------------------------------------------------
(* isQualityContent applied to a text, twice *)

MaxWords == 10

\* A text of words words and of length characters: common copies of "home"
\* (each followed by a full stop when dotted), words of one character, and
\* one long word that fills the length; lead spaces stand before it.
QualityText(common, words, length, lead, dotted) ==
    LET home == IF dotted THEN <<K("home"), DOT, SP>> ELSE <<K("home"), SP>>
        used == common * (IF dotted THEN 6 ELSE 5) + 2 * (words - common - 1) + lead
    IN  Rep(<<SP>>, lead) \o Rep(home, common)
        \o Rep(<<F(1), SP>>, words - common - 1) \o <<F(length - used)>>

QualityTexts ==
    UNION { { QualityText(common, words, length, lead, dotted) :
                common \in 0..(words - 1), length \in {299, 300, 301},
                lead \in {0, 1}, dotted \in BOOLEAN } :
            words \in 1..MaxWords }

InitQuality ==
    /\ qualityText \in QualityTexts
    /\ qualityDecisions = <<>>
    /\ AnalyzeIdle
    /\ CategoryIdle
    /\ SummarizeIdle
    /\ DedupIdle
    /\ city = NoCity
    /\ inflight = {}
    /\ DiscoverIdle
    /\ ExtractIdle
    /\ ChunkIdle
    /\ cities = <<>>
    /\ PipelineIdle

CallIsQualityContent ==
    /\ Len(qualityDecisions) < 2
    /\ qualityDecisions' = Append(qualityDecisions, isQualityContent(qualityText))
    /\ UNCHANGED <<qualityText, chunkVars, city, inflight, discVars, extVars,
                   pipeVars, anaVars, catVars, sumVars, dedupVars>>

NextQuality == CallIsQualityContent

SpecQuality == InitQuality /\ [][NextQuality]_vars

-----------------------------------------------------------------------------
(* analyzeChunks applied to chunks whose answers the classifier chooses *)

MaxChunks == 2

Concern(description, category, location, severity) ==
    [json |-> "object", description |-> description, category |-> category,
     location |-> location, severity |-> severity]

Concerns ==
    { Concern(d, c, l, v) :
        d \in { "Potholes", " potholes ", Undefined }, c \in { "housing", "parks" },
        l \in { "Ward 1", Undefined }, v \in { "low", "high", "urgent" } }
    \cup { [json |-> "null", description |-> Undefined, category |-> Undefined,
            location |-> Undefined, severity |-> Undefined] }

ClassifierResponses ==
    { [kind |-> k, concerns |-> <<>>] : k \in { "text", "malformed", "object" } }
    \cup { [kind |-> "concerns", concerns |-> <<c>>] : c \in Concerns }

InitAnalyze ==
    /\ \E n \in 0..MaxChunks : responses \in [1..n -> ClassifierResponses]
    /\ ai = 1
    /\ allConcerns = <<>>
    /\ analyzed = "running"
    /\ qualityText = <<>>
    /\ qualityDecisions = <<>>
    /\ CategoryIdle
    /\ SummarizeIdle
    /\ DedupIdle
    /\ city = NoCity
    /\ inflight = {}
    /\ DiscoverIdle
    /\ ExtractIdle
    /\ ChunkIdle
    /\ cities = <<>>
    /\ PipelineIdle

NextAnalyze ==
    \/ AnalyzeOneChunk /\ UNCHANGED <<sumVars, dedupVars, catVars, qualVars, chunkVars, city, inflight, discVars,
                                      extVars, pipeVars>>
    \/ AnalyzeReturn /\ UNCHANGED <<sumVars, dedupVars, catVars, qualVars, chunkVars, city, inflight, discVars,
                                    extVars, pipeVars>>

SpecAnalyze == InitAnalyze /\ [][NextAnalyze]_vars

-----------------------------------------------------------------------------
(* The summaries generated in one process *)

MaxSummaries == 3

Envs ==
    [ AI_PROVIDER : { "", "auto", "gemini", "openai" },
      GEMINI_API_KEY : BOOLEAN, OPENAI_API_KEY : BOOLEAN ]

InitSummarize ==
    /\ env \in Envs
    /\ Unused
    /\ DedupIdle
    /\ CategoryIdle
    /\ QualityIdle
    /\ AnalyzeIdle
    /\ city = NoCity
    /\ inflight = {}
    /\ DiscoverIdle
    /\ ExtractIdle
    /\ ChunkIdle
    /\ cities = <<>>
    /\ PipelineIdle

CallGenerateCompanySpecificSummary ==
    /\ Len(aiLog) < MaxSummaries
    /\ \E gemini \in { "ok", "throws" }, openai \in { "ok", "throws" },
          request \in { "ok", "throws" } :
            Generate("generateCompanySpecificSummary", gemini, openai, request)

CallGenerateCompanyInsights ==
    /\ Len(aiLog) < MaxSummaries
    /\ \E municipalitySummaries \in 0..1 :
          IF municipalitySummaries = 0
          THEN NoMunicipalityData
          ELSE \E gemini \in { "ok", "throws" }, openai \in { "ok", "throws" },
                  request \in { "ok", "throws" } :
                    Generate("generateCompanyInsights", gemini, openai, request)

NextSummarize ==
    \/ CallGenerateCompanySpecificSummary
          /\ UNCHANGED <<dedupVars, catVars, anaVars, qualVars, chunkVars, city,
                         inflight, discVars, extVars, pipeVars>>
    \/ CallGenerateCompanyInsights
          /\ UNCHANGED <<dedupVars, catVars, anaVars, qualVars, chunkVars, city,
                         inflight, discVars, extVars, pipeVars>>

SpecSummarize == InitSummarize /\ [][NextSummarize]_vars

-----------------------------------------------------------------------------
(* deduplicateConcerns applied to a list of concerns *)

MaxConcerns == 3

DuplicateConcerns ==
    { Concern(d, "housing", l, v) :
        d \in { "Potholes", " potholes ", "Potholes_Ward 1" },
        l \in { "Ward 1", "ward 1_ward 1" },
        v \in { "low", "medium", "high" } }

InitDedup ==
    /\ \E n \in 0..MaxConcerns : dedupConcerns \in [1..n -> DuplicateConcerns]
    /\ dedupReturned = <<>>
    /\ SummarizeIdle
    /\ CategoryIdle
    /\ QualityIdle
    /\ AnalyzeIdle
    /\ city = NoCity
    /\ inflight = {}
    /\ DiscoverIdle
    /\ ExtractIdle
    /\ ChunkIdle
    /\ cities = <<>>
    /\ PipelineIdle

CallDeduplicateConcerns ==
    /\ dedupReturned = <<>>
    /\ dedupReturned' = << deduplicateConcerns(dedupConcerns) >>
    /\ UNCHANGED <<dedupConcerns, sumVars, catVars, anaVars, qualVars, chunkVars,
                   city, inflight, discVars, extVars, pipeVars>>

NextDedup == CallDeduplicateConcerns

SpecDedup == InitDedup /\ [][NextDedup]_vars

-----------------------------------------------------------------------------
(* runFullPipeline over a list of cities; a stage is what it hands back *)

NumCities == 3

CityNames ==
    << "Toronto", "Ottawa", "Hamilton", "London", "Windsor", "Kingston" >>

CityList(n) ==
    [ k \in 1..Min({n, Len(CityNames)}) |->
        [name |-> CityNames[k], website |-> Url(CityNames[k], <<>>)] ]

\* A stage returns an empty list or a list of two, or throws.
StageOutcomes(stage) == { Returned(0), Returned(2), Thrown(stage) }

\* mockAnalyzeChunks returns a list of concerns, or throws.
AnalyzeOutcomes ==
    { [throws |-> FALSE, n |-> Len(c), message |-> "", concerns |-> c] :
        c \in { <<>>, <<"transit">>, <<"transit", "housing">> } }
    \cup { [throws |-> TRUE, n |-> 0, message |-> "analyze", concerns |-> <<>>] }

InitPipeline ==
    /\ \E n \in 0..NumCities : cities = AsSeq(CityList(n))
    /\ PipelineIdle
    /\ city = NoCity
    /\ inflight = {}
    /\ DiscoverIdle
    /\ ExtractIdle
    /\ QualityIdle
    /\ AnalyzeIdle
    /\ CategoryIdle
    /\ SummarizeIdle
    /\ DedupIdle
    /\ ChunkIdle

\* runFullPipeline up to its first await.
RunFullPipeline ==
    /\ pstage = "idle"
    /\ IF cities = <<>> THEN NoCities ELSE EnterCity(1)

\* The 2-second pause between two cities is over.
NextCity ==
    /\ pstage = "pause"
    /\ EnterCity(pi + 1)

DiscoverStageEnds ==
    /\ pstage = "discover"
    /\ \E outcome \in StageOutcomes("discover") : AfterDiscover(outcome)

ExtractStageEnds ==
    /\ pstage = "extract"
    /\ \E outcome \in StageOutcomes("extract"), chunked \in StageOutcomes("chunk") :
          AfterExtract(outcome, chunked)

AnalyzeStageEnds ==
    /\ pstage = "analyze"
    /\ \E outcome \in AnalyzeOutcomes : AfterAnalyze(outcome)

NextPipeline ==
    \/ RunFullPipeline /\ UNCHANGED <<sumVars, dedupVars, catVars, anaVars, qualVars, chunkVars, city, inflight, discVars, extVars>>
    \/ NextCity /\ UNCHANGED <<sumVars, dedupVars, catVars, anaVars, qualVars, chunkVars, city, inflight, discVars, extVars>>
    \/ DiscoverStageEnds /\ UNCHANGED <<sumVars, dedupVars, catVars, anaVars, qualVars, chunkVars, city, inflight, discVars, extVars>>
    \/ ExtractStageEnds /\ UNCHANGED <<sumVars, dedupVars, catVars, anaVars, qualVars, chunkVars, city, inflight, discVars, extVars>>
    \/ AnalyzeStageEnds /\ UNCHANGED <<sumVars, dedupVars, catVars, anaVars, qualVars, chunkVars, city, inflight, discVars, extVars>>

SpecPipeline == InitPipeline /\ [][NextPipeline]_vars

\* runFullPipeline over a list long enough for an intermediate snapshot
MaxRun == 5

InitLongRun ==
    /\ \E n \in 0..MaxRun : cities = AsSeq(CityList(n))
    /\ PipelineIdle
    /\ city = NoCity
    /\ inflight = {}
    /\ DiscoverIdle
    /\ ExtractIdle
    /\ QualityIdle
    /\ AnalyzeIdle
    /\ CategoryIdle
    /\ SummarizeIdle
    /\ DedupIdle
    /\ ChunkIdle

SpecLongRun == InitLongRun /\ [][NextPipeline]_vars

-----------------------------------------------------------------------------
(* runFullPipeline for one city, with the Discoverer and the Extractor *)

\* A promise processCity awaits is settled: its continuation runs before any
\* timer or response is handled.
ContinuationPending ==
    \/ pstage = "discover" /\ promise.state = "resolved"
    \/ pstage = "extract" /\ xpc = "done"

Init ==
    /\ cities \in {<<City>>, <<NoCity>>}
    /\ PipelineIdle
    /\ city = NoCity
    /\ inflight = {}
    /\ DiscoverIdle
    /\ ExtractIdle
    /\ QualityIdle
    /\ AnalyzeIdle
    /\ CategoryIdle
    /\ SummarizeIdle
    /\ DedupIdle
    /\ ChunkIdle

Start ==
    /\ pstage = "idle"
    /\ EnterCity(1)
    /\ city' = cities[1]
    /\ DiscoverCall(cities[1])
    /\ UNCHANGED <<sumVars, dedupVars, catVars, anaVars, qualVars, chunkVars, extVars>>

Discovered ==
    /\ pstage = "discover"
    /\ promise.state = "resolved"
    /\ AfterDiscover(Returned(Len(promise.value)))
    /\ IF promise.value # <<>>
       THEN ExtractCall(city, promise.value)
       ELSE UNCHANGED <<extVars, inflight>>
    /\ UNCHANGED <<sumVars, dedupVars, catVars, anaVars, qualVars, chunkVars, city, discVars>>

Extracted ==
    /\ pstage = "extract"
    /\ xpc = "done"
    /\ \E chunked \in StageOutcomes("chunk") :
          AfterExtract(Returned(Len(documents)), chunked)
    /\ UNCHANGED <<sumVars, dedupVars, catVars, anaVars, qualVars, chunkVars, city, inflight, discVars, extVars>>

Next ==
    \/ Start
    \/ Discovered
    \/ Extracted
    \/ AnalyzeStageEnds /\ UNCHANGED <<sumVars, dedupVars, catVars, anaVars, qualVars, chunkVars, city, inflight, discVars, extVars>>
    \/ ~ContinuationPending /\ DiscoverRobots /\ UNCHANGED <<sumVars, dedupVars, catVars, anaVars, qualVars, chunkVars, city, extVars, pipeVars>>
    \/ ~ContinuationPending /\ DiscoverPage /\ UNCHANGED <<sumVars, dedupVars, catVars, anaVars, qualVars, chunkVars, city, extVars, pipeVars>>
    \/ ~ContinuationPending /\ DiscoverDelay /\ UNCHANGED <<sumVars, dedupVars, catVars, anaVars, qualVars, chunkVars, city, extVars, pipeVars>>
    \/ ~ContinuationPending /\ DiscoverTimeout /\ UNCHANGED <<sumVars, dedupVars, catVars, anaVars, qualVars, chunkVars, city, extVars, pipeVars>>
    \/ ~ContinuationPending /\ ExtractRobots /\ UNCHANGED <<sumVars, dedupVars, catVars, anaVars, qualVars, chunkVars, city, discVars, pipeVars>>
    \/ ~ContinuationPending /\ ExtractPage /\ UNCHANGED <<sumVars, dedupVars, catVars, anaVars, qualVars, chunkVars, city, discVars, pipeVars>>
    \/ ~ContinuationPending /\ ExtractDelay /\ UNCHANGED <<sumVars, dedupVars, catVars, anaVars, qualVars, chunkVars, city, discVars, pipeVars>>

Spec == Init /\ [][Next]_vars

-----------------------------------------------------------------------------
(* Properties of chunkDocuments (SpecChunk) *)

\* allChunks before the cap, for the documents of the call
Accumulated == AccumulatedChunks(city, extractedDocuments)

\* The positions in the returned list of the chunks of source document d
ChunksOfDocument(d) == { k \in 1..Len(chunkOut) : chunkOut[k].doc = d }

\* C1: for every city and every list of extracted documents, the list that
\* chunkDocuments returns has at most 30 chunks, however many documents there
\* are and however many chunks each of them yields.
C1_AtMostThirtyChunks ==
    cpc = "returned" => Len(chunkOut) <= 30

\* The cap was applied: more than 30 chunks accumulated, 30 were returned.
C1_CapApplied ==
    /\ cpc = "returned"
    /\ Len(Accumulated) > 30
    /\ Len(chunkOut) = 30

\* C2 as stated: in the returned list, the chunk_index values of every source
\* document with a chunk in the list are exactly 1..total_chunks, without gap
\* or repeat, and its chunks share total_chunks, also after the cap.
C2_IndexesExactlyOneToTotal ==
    cpc = "returned" =>
        \A d \in 1..Len(extractedDocuments) :
            LET own == ChunksOfDocument(d)
            IN  own # {} =>
                  /\ \A j, k \in own :
                        /\ chunkOut[j].total_chunks = chunkOut[k].total_chunks
                        /\ j # k => chunkOut[j].chunk_index # chunkOut[k].chunk_index
                  /\ \A k \in own :
                        { chunkOut[j].chunk_index : j \in own }
                            = 1..chunkOut[k].total_chunks

\* C2, as the code has it: the chunks of one source document in the returned
\* list have distinct chunk_index values within 1..total_chunks and share
\* total_chunks, the number of chunks the document was split into; the
\* values are exactly 1..total_chunks when no more than 30 chunks accumulated.
\* After the cap the chunks that were cut leave gaps.
C2_IndexesDistinctWithinTotal ==
    cpc = "returned" =>
        \A d \in 1..Len(extractedDocuments) :
            LET own == ChunksOfDocument(d)
                split == Len(splitIntoChunks(
                                FilteredText(extractedDocuments[d].raw_text), 2400))
            IN  /\ \A j, k \in own :
                      j # k => chunkOut[j].chunk_index # chunkOut[k].chunk_index
                /\ \A k \in own :
                      /\ chunkOut[k].total_chunks = split
                      /\ chunkOut[k].chunk_index \in 1..split
                /\ (Len(Accumulated) <= 30 /\ own # {}) =>
                      { chunkOut[j].chunk_index : j \in own } = 1..split

\* The cap cut chunks of a document that keeps others: its indexes have a gap.
C2_GapAfterCap ==
    /\ cpc = "returned"
    /\ Len(Accumulated) > 30
    /\ \E d \in 1..Len(extractedDocuments) :
          LET own == ChunksOfDocument(d)
          IN  /\ own # {}
              /\ \E k \in own :
                    Cardinality(own) < chunkOut[k].total_chunks

C10_ShortDocumentNeverChunked ==
    cpc = "returned" =>
        \A d \in 1..Len(extractedDocuments) :
            TextLen(extractedDocuments[d].raw_text) < 300 =>
                /\ TextLen(FilteredText(extractedDocuments[d].raw_text)) < 300
                /\ ChunksOfDocument(d) = {}

\* A short document that passes the community-signal, procedural and
\* legal/ceremonial tests, and holds a sentence long enough for a chunk.
C10_ShortDocumentPassesTests ==
    /\ cpc = "returned"
    /\ \E d \in 1..Len(extractedDocuments) :
          LET raw == extractedDocuments[d].raw_text
          IN  /\ TextLen(raw) < 300
              /\ hasCommunitySignal(raw)
              /\ ~isProceduralBoilerplate(raw)
              /\ ~isLegalFinancialCeremonial(raw)
              /\ splitIntoChunks(FilteredText(raw), 2400) # <<>>

\* a is at least as dense as b: keywords(a) / words(a) >= keywords(b) / words(b)
AtLeastAsDense(a, b) ==
    LET da == calculateKeywordDensity(a.text)
        db == calculateKeywordDensity(b.text)
    IN  da[1] * db[2] >= db[1] * da[2]

\* C11: when more than 30 chunks accumulated, chunkDocuments returns exactly
\* 30 of them, each with its source_url, title, chunk_index, total_chunks and
\* text as accumulated and none twice, and every returned chunk has a keyword
\* density at least that of every chunk that was cut.
C11_TopThirtyByDensity ==
    (cpc = "returned" /\ Len(Accumulated) > 30) =>
        LET all == Accumulated
            kept == { j \in 1..Len(all) :
                        \E k \in 1..Len(chunkOut) : chunkOut[k] = all[j] }
        IN  /\ Len(chunkOut) = 30
            /\ \A k \in 1..Len(chunkOut) :
                  \E j \in 1..Len(all) : chunkOut[k] = all[j]
            /\ \A j, k \in 1..Len(chunkOut) :
                  (chunkOut[j].doc = chunkOut[k].doc
                     /\ chunkOut[j].chunk_index = chunkOut[k].chunk_index) => j = k
            /\ \A j \in kept, c \in (1..Len(all)) \ kept :
                  AtLeastAsDense(all[j], all[c])

\* 45 chunks of 3 documents accumulated; a chunk that was cut is less dense
\* than a returned chunk that was accumulated after it.
C11_FortyFiveFromThree ==
    /\ cpc = "returned"
    /\ Len(extractedDocuments) = 3
    /\ Len(Accumulated) = 45
    /\ Len(chunkOut) = 30
    /\ \E c \in 1..45, k \in 1..30 :
          /\ Accumulated[c].doc < chunkOut[k].doc
          /\ \A j \in 1..30 : chunkOut[j] # Accumulated[c]
          /\ ~AtLeastAsDense(Accumulated[c], chunkOut[k])

\* C13 as stated: the 1000-character document made of "Motion carried
\* unanimously. Roll call: present." repeated is rejected by the
\* procedural-boilerplate test.
C13_MotionTextIsBoilerplate ==
    \A d \in 1..Len(extractedDocuments) :
        extractedDocuments[d].raw_text = MotionText =>
            isProceduralBoilerplate(extractedDocuments[d].raw_text)

\* chunkDocuments was called with the document: its text has 1000 characters,
\* three of the patterns match it, and the test lets it pass.
C13_MotionTextPasses ==
    /\ cpc = "returned"
    /\ extractedDocuments = <<MotionDocument>>
    /\ TextLen(MotionText) = 1000
    /\ Cardinality({ k \in 1..Len(boilerplatePatterns) :
                       RegexTest(MotionText, boilerplatePatterns[k]) }) = 3
    /\ ~isProceduralBoilerplate(MotionText)

\* The candidate chunks of the document at position pos, before the filter
\* on their length
CandidatesOf(pos) ==
    IF DocumentAccepted(extractedDocuments[pos].raw_text)
    THEN CandidateChunks(FilteredText(extractedDocuments[pos].raw_text), maxChars)
    ELSE <<>>

\* The texts of the returned chunks of the document at position pos
ReturnedTextsOf(pos) ==
    { chunkOut[k].text : k \in { j \in 1..Len(chunkOut) : chunkOut[j].doc = pos } }

\* C29: splitIntoChunks discards a candidate chunk iff it has fewer than 100
\* characters: a candidate of exactly 100 characters is kept and every
\* candidate of 100 characters or more is in the result (stated for the
\* lists that stay within the cap of 30 chunks).
C29_HundredCharactersKept ==
    (cpc = "returned"
        /\ Len(AccumulatedChunks(city, extractedDocuments)) <= maxChunksPerCity) =>
        \A pos \in 1..Len(extractedDocuments) :
            LET candidates == CandidatesOf(pos)
            IN  \A k \in 1..Len(candidates) :
                    (TextLen(candidates[k]) >= 100)
                        <=> (candidates[k] \in ReturnedTextsOf(pos))

\* The report whose second candidate chunk has exactly 100 characters came
\* back as one chunk.
C29_HundredCharactersDiscarded ==
    /\ cpc = "returned"
    /\ Len(extractedDocuments) = 1
    /\ LET candidates == CandidatesOf(1)
       IN  /\ Len(candidates) = 2
           /\ TextLen(candidates[1]) = 2391
           /\ TextLen(candidates[2]) = 100
    /\ Len(chunkOut) = 1
    /\ TextLen(chunkOut[1].text) = 2391

-----------------------------------------------------------------------------
(* Properties of isQualityContent (SpecQuality) *)

\* The whitespace-split tokens that are, letter for letter, one of the seven
\* common words
CommonTokensOf(text) ==
    { i \in WordStarts(text) :
        /\ i = Len(text) \/ IsWs(text[i + 1])
        /\ text[i] \in { K("home"), K("about"), K("contact"), K("menu"),
                          K("navigation"), K("footer"), K("copyright") } }

\* C14: isQualityContent accepts a text iff it has at least 300 characters and
\* at most 0.3 of its whitespace-split tokens are common words; so 299
\* characters are always rejected, 300 characters pass the length gate, and
\* two evaluations of the same text agree.
C14_QualityDecision ==
    LET tokens == WordCount(qualityText)
        common == Cardinality(CommonTokensOf(qualityText))
    IN  \A k \in 1..Len(qualityDecisions) :
            /\ qualityDecisions[k] <=>
                   (TextLen(qualityText) >= 300 /\ 10 * common <= 3 * tokens)
            /\ TextLen(qualityText) = 299 => ~qualityDecisions[k]
            /\ (TextLen(qualityText) = 300 /\ common = 0) => qualityDecisions[k]
            /\ qualityDecisions[k] = qualityDecisions[1]

\* A text of exactly 300 characters and ten tokens, three of them "home", was
\* evaluated twice and accepted.
C14_ThreeOfTenAccepted ==
    /\ TextLen(qualityText) = 300
    /\ WordCount(qualityText) = 10
    /\ Cardinality(CommonTokensOf(qualityText)) = 3
    /\ qualityDecisions = <<TRUE, TRUE>>

-----------------------------------------------------------------------------
(* Properties of analyzeChunks (SpecAnalyze) *)

\* C15: whatever the classifier answers (text that is not JSON, JSON without a
\* concerns array, concern records with missing or invalid fields such as an
\* absent location), analyzeChunks analyzes every chunk and returns a list; it
\* never throws.
C15_AnalyzeChunksNeverThrows == analyzed # "thrown"

\* The classifier answered with an otherwise valid concern that has no
\* location, and the call of analyzeChunks has ended.
C15_ConcernWithoutLocation ==
    /\ analyzed \in { "returned", "thrown" }
    /\ \E k \in 1..Len(responses) :
           responses[k] = [kind |-> "concerns", concerns |->
               <<Concern("Potholes", "housing", Undefined, "low")>>]

-----------------------------------------------------------------------------
(* Properties of initializeAI (SpecSummarize) *)

\* The calls that reached initializeAI, in order
Initializations == SelectSeq(aiLog, LAMBDA entry : entry.initialized)

\* C28: once initializeAI has initialized the client of a provider, every
\* later call of initializeAI reports that provider as available, so the
\* second and later calls of generateCompanySpecificSummary and
\* generateCompanyInsights do not fall back to "no AI provider available".
C28_ClientReusedByLaterCalls ==
    \A i \in 1..Len(Initializations) : \A j \in (i + 1)..Len(Initializations) :
        Initializations[i].available =>
            /\ Initializations[j].available
            /\ Initializations[j].provider = Initializations[i].provider

\* The first call initialized Gemini and was answered by it; the second call
\* found no provider and returned the fallback text, the client still held.
C28_SecondCallFallsBack ==
    /\ env = [ AI_PROVIDER |-> "", GEMINI_API_KEY |-> TRUE,
               OPENAI_API_KEY |-> FALSE ]
    /\ Len(aiLog) = 2
    /\ aiLog[1] = [ fn |-> "generateCompanySpecificSummary", initialized |-> TRUE,
                    provider |-> "gemini", available |-> TRUE,
                    answered |-> "gemini" ]
    /\ aiLog[2] = [ fn |-> "generateCompanySpecificSummary", initialized |-> TRUE,
                    provider |-> Null, available |-> FALSE,
                    answered |-> "fallback" ]
    /\ genAI # Null
    /\ geminiModel # Null

-----------------------------------------------------------------------------
(* Properties of deduplicateConcerns (SpecDedup) *)

\* The positions of the argument that hold a concern with the description and
\* the location of concern, compared in lower case and trimmed
OccurrencesOf(concern) ==
    { k \in 1..Len(dedupConcerns) : SameConcern(dedupConcerns[k], concern) }

\* The earliest of the occurrences of the highest severity
HighestEarliest(concern) ==
    CHOOSE k \in OccurrencesOf(concern) :
        \A j \in OccurrencesOf(concern) :
            LET sk == severityOrder[dedupConcerns[k].severity]
                sj == severityOrder[dedupConcerns[j].severity]
            IN  sj < sk \/ (sj = sk /\ k <= j)

\* C30: deduplicateConcerns returns at most one concern per key (description
\* and location, lower-cased and trimmed).  The kept concerns stand in the
\* order of the first occurrences of their keys, and each is the input
\* concern of the highest severity (low < medium < high) with its key, the
\* earliest one among those of equal severity.
C30_OnePerKeyHighestSeverity ==
    dedupReturned # <<>> =>
        LET unique == dedupReturned[1].value
        IN  /\ ~dedupReturned[1].throws
            /\ \A a \in 1..Len(unique) : \A b \in (a + 1)..Len(unique) :
                  /\ ~SameConcern(unique[a], unique[b])
                  /\ Min(OccurrencesOf(unique[a])) < Min(OccurrencesOf(unique[b]))
            /\ \A a \in 1..Len(unique) :
                  /\ OccurrencesOf(unique[a]) # {}
                  /\ unique[a] = dedupConcerns[HighestEarliest(unique[a])]
            /\ dedupConcerns # <<>> => unique # <<>>

\* Three concerns of one key, low, high and high: the second one, whose
\* description differs in case and white space, replaced the first, and the
\* third did not replace the second.
C30_UpgradedOnceToHigh ==
    /\ dedupConcerns = << Concern("Potholes", "housing", "Ward 1", "low"),
                          Concern(" potholes ", "housing", "Ward 1", "high"),
                          Concern("Potholes", "housing", "Ward 1", "high") >>
    /\ dedupReturned
          = << [ throws |-> FALSE,
                 value |-> << Concern(" potholes ", "housing", "Ward 1", "high") >> ] >>

-----------------------------------------------------------------------------
(* Properties of discoverRelevantPages (SpecDiscover) *)

\* C4: when the 3-minute timer has fired, the promise of discoverRelevantPages
\* is resolved, and with the de-duplicated list of the links reported up to
\* that moment: no URL twice, every link reported before the timer fired is
\* there under its URL, and nothing else is; later links do not change it.
C4_TimerResolvesWithLinksSoFar ==
    timeout = "fired" =>
        /\ promise.state = "resolved"
        /\ \A i, j \in 1..Len(promise.value) :
              i # j => promise.value[i].url # promise.value[j].url
        /\ \A k \in 1..Len(resultsAtTimeout) :
              \E i \in 1..Len(promise.value) :
                  promise.value[i].url = resultsAtTimeout[k].url
        /\ \A i \in 1..Len(promise.value) :
              \E k \in 1..Len(resultsAtTimeout) :
                  promise.value[i] = resultsAtTimeout[k]

\* The timer fired with work left, a link was reported twice before it fired,
\* and another link was reported after it.
C4_TimerFiredOverDuplicates ==
    /\ timeout = "fired"
    /\ queue # <<>>
    /\ \E j, k \in 1..Len(resultsAtTimeout) :
          j # k /\ resultsAtTimeout[j].url = resultsAtTimeout[k].url
    /\ Len(results) > Len(resultsAtTimeout)

LinkReportedAs(url, category) ==
    \E k \in 1..Len(results) :
        results[k] = [municipality |-> city.name, category |-> category,
                      url |-> url]

\* C12 as stated: the link https://city.example/council/minutes-2024.pdf with
\* the anchor text "2024 Council Minutes" is reported as relevant, with the
\* category minutes.
C12_MinutesPdfIsMinutes ==
    \A k \in 1..Len(results) :
        results[k].url = MinutesPdf => results[k].category = "minutes"

\* C12, as the code has it: the link is reported as relevant, and its
\* category is council, the first category tested, since its URL and its
\* anchor text contain "council".
C12_MinutesPdfIsCouncil ==
    /\ isRelevant(MinutesPdf, <<"2024", "council", "minutes">>)
    /\ getCategory(MinutesPdf, <<"2024", "council", "minutes">>) = "council"
    /\ \A k \in 1..Len(results) :
          results[k].url = MinutesPdf => results[k].category = "council"
    /\ (\E k \in 1..Len(results) : results[k].url = January) =>
          LinkReportedAs(MinutesPdf, "council")   \* both stand on one page

\* The page that holds the link was scanned and the link is in the results.
C12_MinutesPdfReported ==
    \E k \in 1..Len(results) : results[k].url = MinutesPdf

\* The URLs that only the page at depth 3 links to
BelowDepthThree == { January, MinutesPdf }

\* C20: no page at a depth greater than 3 is fetched and no queue entry with a
\* depth greater than 3 is created; the links found on a page at depth 3 may
\* be reported but are never enqueued.
C20_DepthBound ==
    /\ \A k \in 1..Len(dlog) : dlog[k].depth <= 3
    /\ \A k \in 1..Len(queue) :
           /\ queue[k].depth <= 3
           /\ queue[k].url \notin BelowDepthThree
    /\ dpc = "fetch" => cur.depth <= 3
    /\ visited \cap BelowDepthThree = {}

\* The page at depth 3 was fetched and scanned: its link to the minutes of
\* 2024 is reported, and the crawl ended without requesting it.
C20_DepthThreeScanned ==
    /\ \E k \in 1..Len(dlog) :
           dlog[k] = [op |-> "fetch", url |-> Year, depth |-> 3]
    /\ \E k \in 1..Len(results) : results[k].url = MinutesPdf
    /\ dpc = "done"
    /\ queue = <<>>
    /\ ~timeoutReached

\* The link's host is the base host, and its URL with its anchor text holds
\* a relevance keyword and no skip keyword
ToBeReported(page, link) ==
    LET url == normalizeUrl(page.url, link.href)
        words == LinkWords(url, link.anchor)
    IN  /\ url.host = city.website.host
        /\ \E w \in words, k \in 1..Len(RELEVANT_KEYWORDS) :
               Contains(w, RELEVANT_KEYWORDS[k])
        /\ \A w \in words, k \in 1..Len(SKIP_KEYWORDS) :
               ~Contains(w, SKIP_KEYWORDS[k])

\* The URLs of the links of a page that are to be reported, in page order
UrlsToBeReported(page) ==
    LET links == PageLinks(page.url)
        kept == Sorted({ k \in 1..Len(links) : ToBeReported(page, links[k]) })
    IN  AsSeq([ k \in 1..Len(kept) |-> normalizeUrl(page.url, links[kept[k]].href) ])

\* C21: a link found on a fetched page is added to the results iff its host
\* is the base host and its URL with its anchor text holds a relevance
\* keyword and no skip keyword, whether or not it was visited or is
\* enqueued; no link on another host is ever reported or enqueued.
C21_ReportedIffRelevantOnBaseHost ==
    [][ /\ (dpc = "fetch" /\ dpc' = "delay") =>
              LET added == SubSeq(results', Len(results) + 1, Len(results'))
              IN  /\ SubSeq(results', 1, Len(results)) = results
                  /\ \/ added = <<>> /\ queue' = queue
                     \/ AsSeq([ k \in 1..Len(added) |-> added[k].url ])
                            = UrlsToBeReported(cur)
        /\ \A k \in 1..Len(results') : results'[k].url.host = city.website.host
        /\ \A k \in 1..Len(queue') : queue'[k].url.host = city.website.host
      ]_vars

\* The page /council was scanned: its link to itself is reported a second
\* time although /council was visited, the link to /tourism/council-events
\* was followed but is not reported, and the link to the other host is
\* neither reported nor followed.
C21_VisitedReportedSkippedFollowed ==
    /\ \E j, k \in 1..Len(results) :
           j < k /\ results[j].url = Council /\ results[k].url = Council
    /\ Tourism \in visited
    /\ \A k \in 1..Len(results) : results[k].url # Tourism
    /\ Elsewhere \notin visited

\* The links reported when the promise was resolved
ReportedAtResolve == IF timeout = "fired" THEN resultsAtTimeout ELSE results

\* C23: the list discoverRelevantPages returns never holds two entries with
\* the same url, whether the crawl completed or was cut off by the timer, and
\* for a url reported several times the entry kept is the first one
\* reported, with its category.
C23_ReturnedListUniqueFirstKept ==
    promise.state = "resolved" =>
        /\ \A i, j \in 1..Len(promise.value) :
               promise.value[i].url = promise.value[j].url => i = j
        /\ \A i \in 1..Len(promise.value) :
               \E k \in 1..Len(ReportedAtResolve) :
                   /\ promise.value[i] = ReportedAtResolve[k]
                   /\ \A m \in 1..(k - 1) :
                          ReportedAtResolve[m].url # ReportedAtResolve[k].url
        /\ \A k \in 1..Len(ReportedAtResolve) :
               \E i \in 1..Len(promise.value) :
                   promise.value[i].url = ReportedAtResolve[k].url

\* The crawl completed; /meetings was reported first as minutes and later as
\* agenda, and the list returned holds it as minutes.
C23_MeetingsKeptAsMinutes ==
    /\ promise.state = "resolved"
    /\ timeout = "cleared"
    /\ \E j, k \in 1..Len(results) :
           /\ j < k
           /\ results[j].url = Meetings /\ results[j].category = "minutes"
           /\ results[k].url = Meetings /\ results[k].category = "agenda"
    /\ \E i \in 1..Len(promise.value) :
           promise.value[i].url = Meetings /\ promise.value[i].category = "minutes"

\* The URLs of a list, as a set
UrlsOf(list) == { list[k].url : k \in 1..Len(list) }

\* C25: the promise of discoverRelevantPages is always eventually settled,
\* and only by resolving: with the de-duplicated results when the queue
\* empties before the timer, which is then cancelled and never fires; with
\* the partial results when the timer fires first; with an empty list on an
\* unexpected crawl error.  The caller observes exactly one outcome.
C25_PromiseAlwaysResolves ==
    /\ <>(promise.state = "resolved")
    /\ [](promise.state \in {"pending", "resolved"})
    /\ [](promise.state = "resolved" =>
             \/ /\ timeout = "unset" /\ ~HasWebsite(city)
                /\ promise.value = <<>>
             \/ /\ timeout = "cleared" /\ city = BrokenCity
                /\ promise.value = <<>>
             \/ /\ timeout = "cleared" /\ city = City
                /\ queue = <<>> /\ ~timeoutReached
                /\ UrlsOf(promise.value) = UrlsOf(results)
                /\ Cardinality(UrlsOf(promise.value)) = Len(promise.value)
             \/ /\ timeout = "fired" /\ city = City
                /\ UrlsOf(promise.value) = UrlsOf(resultsAtTimeout)
                /\ Cardinality(UrlsOf(promise.value)) = Len(promise.value))
    /\ []((dpc = "done" /\ ~timeoutReached /\ HasWebsite(city))
             => timeout = "cleared")
    /\ [][promise.state = "resolved" => promise' = promise]_vars
    /\ [][timeout = "cleared" => timeout' = "cleared"]_vars

\* The timer fired first: the promise holds the partial results, and the
\* crawl has ended with entries left in its queue.
C25_ResolvedByTimer ==
    /\ promise.state = "resolved"
    /\ timeout = "fired"
    /\ dpc = "done"
    /\ queue # <<>>
    /\ promise.value # <<>>

\* The requests of the Discoverer that are in flight
CrawlRequests == { r \in inflight : r.by = "discoverer" }

\* C26: once the timer has fired the crawl loop starts no new page fetch: at
\* most the request in flight completes, the links parsed from it do not
\* change the value returned to the caller, and the loop exits at its next
\* iteration check.
C26_NoFetchAfterTimer ==
    [][ timeoutReached =>
          /\ CrawlRequests' \subseteq CrawlRequests
          /\ dlog' = dlog
          /\ promise' = promise
          /\ (dpc = "fetch" /\ dpc' # dpc) => dpc' = "delay"
          /\ (dpc = "delay" /\ dpc' # dpc) => dpc' = "done"
          /\ dpc = "done" => dpc' = "done" ]_vars

\* The timer fired while the request of the home page was in flight: the
\* caller got the empty list, the links of the home page were reported after
\* that, and the loop has ended with its queue full.
C26_HomeAnsweredAfterTimer ==
    /\ timeoutReached
    /\ resultsAtTimeout = <<>>
    /\ promise = [state |-> "resolved", value |-> <<>>]
    /\ results # <<>>
    /\ queue # <<>>
    /\ dpc = "done"
    /\ Cardinality({ k \in 1..Len(dlog) : dlog[k].op = "fetch" }) = 1

-----------------------------------------------------------------------------
(* Properties of getCategory (SpecCategory) *)

\* The categories in the order of their priority, each with the strings
\* that stand for it
CategoryPriority ==
    << [category |-> "council", strings |-> {"council"}],
       [category |-> "minutes", strings |-> {"minutes"}],
       [category |-> "agenda", strings |-> {"agenda"}],
       [category |-> "committee", strings |-> {"committee"}],
       [category |-> "consultation",
        strings |-> {"consultation", "have-your-say"}] >>

\* The URL or the anchor text of the link holds one of the strings
LinkHolds(link, strings) ==
    \E kw \in strings :
        \/ Contains(link.href.host, kw)
        \/ \E k \in 1..Len(link.href.path) : Contains(link.href.path[k], kw)
        \/ \E k \in 1..Len(link.anchor) : Contains(link.anchor[k], kw)

\* C22: getCategory assigns the first category that matches in the order
\* council, minutes, agenda, committee, consultation (consultation or
\* have-your-say), and other when none matches; a link that holds both
\* "council" and "minutes" gets the category council.
C22_FirstMatchingCategory ==
    categoryReturned # <<>> =>
        LET matching == { k \in 1..Len(CategoryPriority) :
                            LinkHolds(categoryLink, CategoryPriority[k].strings) }
        IN  /\ categoryReturned[1] =
                   IF matching = {} THEN "other"
                   ELSE CategoryPriority[Min(matching)].category
            /\ (LinkHolds(categoryLink, {"council"})
                   /\ LinkHolds(categoryLink, {"minutes"}))
                  => categoryReturned[1] = "council"

\* getCategory was called with the link /minutes whose anchor text is
\* "agenda council", and returned council.
C22_MinutesAgendaCouncil ==
    /\ categoryLink = Link(Url(Host, <<"minutes">>), <<"agenda", "council">>)
    /\ categoryReturned = <<"council">>

-----------------------------------------------------------------------------
(* Properties of extractDocuments (SpecExtract) *)

\* extractDocuments left its loop through the break
Aborted == xpc = "done" /\ xi \in 1..Len(discoveredUrls)

\* The fetch and parse failures since the last successful extraction
FailuresInARow ==
    LET extracted == { k \in 1..Len(xlog) : xlog[k].outcome = "document" }
        last == Max({0} \cup extracted)
    IN  Cardinality({ k \in (last + 1)..Len(xlog) :
                        xlog[k].outcome \in {"fetch_error", "parse_error"} })

\* C5 as stated: extractDocuments stops as soon as 5 fetch or parse failures
\* occurred in a row with no successful extraction in between, it returns the
\* documents extracted before, and fewer than 5 failures in a row never make
\* it stop early.
C5_AbortsAfterFiveFailuresOnly ==
    /\ Aborted => FailuresInARow >= 5
    /\ xpc \in {"fetch", "delay"} => FailuresInARow < 5
    /\ xpc = "done" =>
          Len(documents)
              = Cardinality({ k \in 1..Len(xlog) : xlog[k].outcome = "document" })

\* extractDocuments stopped early after a single fetch or parse failure.
C5_AbortedAfterOneFailure ==
    /\ Aborted
    /\ FailuresInARow = 1
    /\ xi < Len(discoveredUrls)

\* The pages isQualityContent rejected
QualityRejections ==
    Cardinality({ k \in 1..Len(xlog) : xlog[k].outcome = "low_quality" })

\* C16: a page rejected by the quality filter is not a failure: it does not
\* increment the consecutive-failure counter, and quality rejections alone,
\* with no fetch or parse failure, never make extractDocuments stop early.
C16_QualityRejectionIsNoFailure ==
    /\ consecutiveFailures <= FailuresInARow
    /\ Aborted => FailuresInARow > 0

\* extractDocuments stopped early after five pages, all of them rejected by
\* the quality filter.
C16_FiveRejectionsAbort ==
    /\ Aborted
    /\ QualityRejections = 5
    /\ FailuresInARow = 0
    /\ documents = <<>>

\* C17: within the Discoverer and within the Extractor a 1-second delay
\* completes between any two consecutive page fetches, whatever the outcome
\* of the earlier one: no step ends the request of one page and starts the
\* request of the next.
C17_DelayBetweenFetches ==
    [][ /\ (xpc = "fetch" /\ xpc' = "fetch") => xi' = xi
        /\ (dpc = "fetch" /\ dpc' = "fetch") => cur' = cur ]_vars

\* A page was rejected by the quality filter and the request of the next
\* link is already in flight.
C17_FetchRightAfterRejection ==
    /\ xpc = "fetch"
    /\ xi > 1
    /\ xlog[Len(xlog)] = [url |-> discoveredUrls[xi - 1].url,
                          outcome |-> "low_quality"]
    /\ Request("extractor", discoveredUrls[xi].url) \in inflight

-----------------------------------------------------------------------------
(* Properties of runFullPipeline (SpecPipeline, SpecLongRun) *)

StageOrder == << "discover", "extract", "chunk", "analyze" >>

\* The stages called for city k, in the order of the calls
CallsOf(k) ==
    LET calls == Sorted({ j \in 1..Len(plog) :
                            plog[j].city = k /\ plog[j].event = "call" })
    IN  AsSeq([ m \in 1..Len(calls) |-> plog[calls[m]].stage ])

ReturnedEmpty(k, stage) ==
    \E j \in 1..Len(plog) :
        plog[j] = [city |-> k, stage |-> stage, event |-> "return", n |-> 0]

ReturnedSome(k, stage) ==
    \E j \in 1..Len(plog) :
        /\ plog[j].city = k /\ plog[j].stage = stage
        /\ plog[j].event = "return" /\ plog[j].n > 0

ThrewIn(k) ==
    \E j \in 1..Len(plog) : plog[j].city = k /\ plog[j].event = "throw"

\* C6: processCity calls its stages in the order Discover, Extract, Chunk,
\* Analyze.  When a stage returns an empty list the result is skipped with
\* the reason of that stage and no later stage is called; completed is the
\* status only when links, documents and chunks were all non-empty.
C6_StagesInOrderWithSkipReasons ==
    /\ \A k \in 1..Len(cities) :
          CallsOf(k) = SubSeq(StageOrder, 1, Len(CallsOf(k)))
    /\ \A k \in 1..Len(pipelineResults) :
          LET r == pipelineResults[k]
          IN  /\ ReturnedEmpty(k, "discover") =>
                    /\ r.status = "skipped"
                    /\ r.reason = "no_urls_discovered"
                    /\ CallsOf(k) = SubSeq(StageOrder, 1, 1)
              /\ ReturnedEmpty(k, "extract") =>
                    /\ r.status = "skipped"
                    /\ r.reason = "no_documents_extracted"
                    /\ CallsOf(k) = SubSeq(StageOrder, 1, 2)
              /\ ReturnedEmpty(k, "chunk") =>
                    /\ r.status = "skipped"
                    /\ r.reason = "no_chunks_created"
                    /\ CallsOf(k) = SubSeq(StageOrder, 1, 3)
              /\ r.status = "skipped" =>
                    \E stage \in {"discover", "extract", "chunk"} :
                        ReturnedEmpty(k, stage)
              /\ r.status = "completed" =>
                    /\ ReturnedSome(k, "discover")
                    /\ ReturnedSome(k, "extract")
                    /\ ReturnedSome(k, "chunk")
                    /\ CallsOf(k) = StageOrder

\* One run in which a city had no documents, one no chunks, and one completed.
C6_TwoSkipsAndACompletion ==
    /\ pstage = "finished"
    /\ \E k \in 1..Len(pipelineResults) :
          ReturnedEmpty(k, "extract") /\ pipelineResults[k].status = "skipped"
    /\ \E k \in 1..Len(pipelineResults) :
          ReturnedEmpty(k, "chunk") /\ pipelineResults[k].status = "skipped"
    /\ \E k \in 1..Len(pipelineResults) :
          pipelineResults[k].status = "completed"

\* C7: when a stage throws while a city is processed, the result of that city
\* is status error with the message of the exception and no concerns; the
\* run goes on with the next city until every city has its result, and a
\* city in which no stage threw never has status error.
C7_ErrorStaysWithItsCity ==
    /\ \A k \in 1..Len(pipelineResults) :
          /\ pipelineResults[k].city = cities[k].name
          /\ \A j \in 1..Len(plog) :
                (plog[j].city = k /\ plog[j].event = "throw") =>
                    pipelineResults[k]
                        = [ city |-> cities[k].name, status |-> "error",
                            error |-> Thrown(plog[j].stage).message,
                            concerns |-> <<>> ]
          /\ ~ThrewIn(k) => pipelineResults[k].status # "error"
    /\ pstage = "finished" => Len(pipelineResults) = Len(cities)
    /\ pstage # "finished" => ENABLED NextPipeline

\* A finished run whose first city ended in an error and whose second city
\* completed.
C7_ErrorThenCompleted ==
    /\ pstage = "finished"
    /\ Len(pipelineResults) >= 2
    /\ ThrewIn(1)
    /\ pipelineResults[1].status = "error"
    /\ pipelineResults[2].status = "completed"

\* The sum of concerns_count over the completed ones of the first k results
RECURSIVE ConcernsCounted(_)
ConcernsCounted(k) ==
    IF k = 0 THEN 0
    ELSE ConcernsCounted(k - 1)
         + (IF pipelineResults[k].status = "completed"
            THEN pipelineResults[k].concerns_count ELSE 0)

\* The cities whose processing is over
CitiesProcessed ==
    IF pstage \in {"idle", "pause", "finished"} THEN pi ELSE pi - 1

\* C27: after runFullPipeline has processed k cities, results holds k
\* entries, the entry of a city at the position of the city, each with status
\* completed, skipped or error, and completed + skipped + errors = k.  An
\* entry is never modified after it was appended; the snapshot written after
\* 5, 10, ... cities holds exactly the results of the cities processed until
\* then; total_concerns of the final summary is the sum of concerns_count over
\* the completed results.
C27_ResultsCountersSnapshotsSummary ==
    /\ [](/\ Len(pipelineResults) = CitiesProcessed
          /\ \A k \in 1..Len(pipelineResults) :
                /\ pipelineResults[k].city = cities[k].name
                /\ pipelineResults[k].status \in {"completed", "skipped", "error"}
          /\ completed + skipped + errors = CitiesProcessed
          /\ Len(snapshots) = CitiesProcessed \div snapshotEvery
          /\ \A m \in 1..Len(snapshots) :
                /\ snapshots[m].after = m * snapshotEvery
                /\ snapshots[m].results
                      = SubSeq(pipelineResults, 1, m * snapshotEvery)
          /\ pstage = "finished" =>
                /\ CitiesProcessed = Len(cities)
                /\ summary.total_cities = Len(cities)
                /\ summary.completed = completed
                /\ summary.skipped = skipped
                /\ summary.errors = errors
                /\ summary.total_concerns
                      = ConcernsCounted(Len(pipelineResults)))
    /\ [][/\ Len(pipelineResults') \in { Len(pipelineResults),
                                        Len(pipelineResults) + 1 }
          /\ SubSeq(pipelineResults', 1, Len(pipelineResults))
                = pipelineResults]_vars

\* A finished run over five cities of all three statuses, whose snapshot was
\* written after the fifth city and whose completed cities had three concerns.
C27_SnapshotAfterFiveCities ==
    /\ pstage = "finished"
    /\ Len(pipelineResults) = 5
    /\ completed = 2 /\ skipped = 2 /\ errors = 1
    /\ Len(snapshots) = 1
    /\ snapshots[1].results = pipelineResults
    /\ pipelineResults[5].status = "completed"
    /\ summary.total_concerns = 3

-----------------------------------------------------------------------------
(* Properties of the processing of one city (Spec) *)

\* C3 as stated: no two HTTP requests are in flight at the same time while a
\* city is processed, also when discovery ended through its timer.
C3_OneRequestAtATime == Cardinality(inflight) <= 1

\* A request of the Extractor is in flight beside one of the Discoverer.
C3_ExtractorBesideDiscoverer ==
    \E a, b \in inflight : a.by = "discoverer" /\ b.by = "extractor"

\* C8: when the download of robots.txt failed, the Discoverer and the
\* Extractor go on with no policy: no URL is passed over as disallowed, the
\* crawl starts at the base URL, every discovered link is taken up in turn,
\* the loops do what they do under a policy that disallows nothing, and
\* neither stage throws.
C8_RobotsFailureAllowsAll ==
    /\ (dlog # <<>> /\ dlog[1].op = "robots_failed") =>
          /\ robots = NoRobots
          /\ Len(dlog) >= 2
          /\ dlog[2].url = city.website
          /\ \A k \in 2..Len(dlog) : dlog[k].op = "fetch"
          /\ LoopHead(queue, visited, robots, dlog)
                = LoopHead(queue, visited, Policy({}), dlog)
    /\ (xlog # <<>> /\ xlog[1].outcome = "robots_failed") =>
          /\ xrobots = NoRobots
          /\ \A k \in 2..Len(xlog) :
                /\ xlog[k].outcome # "blocked"
                /\ xlog[k].url = discoveredUrls[k - 1].url
          /\ ExtractLoopHead(xi + 1, xrobots, xlog)
                = ExtractLoopHead(xi + 1, Policy({}), xlog)
    /\ \A j \in 1..Len(plog) :
          plog[j].stage \in {"discover", "extract"} => plog[j].event # "throw"

\* Both downloads failed, and URLs that a policy of the site disallows were
\* fetched: /about by the Discoverer, /council by the Extractor.
C8_FetchedAfterFailedDownloads ==
    /\ dlog # <<>> /\ dlog[1].op = "robots_failed"
    /\ \E k \in 1..Len(dlog) : dlog[k].op = "fetch" /\ dlog[k].url = About
    /\ xlog # <<>> /\ xlog[1].outcome = "robots_failed"
    /\ \E k \in 1..Len(xlog) :
          xlog[k].outcome = "document" /\ xlog[k].url = Council

\* The downloads of robots.txt during the run, by both stages
RobotsDownloads ==
    Cardinality({ k \in 1..Len(dlog) : dlog[k].op \in {"robots", "robots_failed"} })
    + Cardinality({ k \in 1..Len(xlog) :
                      xlog[k].outcome \in {"robots", "robots_failed"} })

\* C18: during the run of one municipality robots.txt is downloaded once, never
\* a second time, and the policy parsed from that download gates every page
\* fetch of the Discoverer and of the Extractor.
C18_RobotsDownloadedOnce ==
    /\ RobotsDownloads <= 1
    /\ \A k \in 1..Len(dlog) :
           dlog[k].op = "fetch" => ~Blocked(robots, dlog[k].url)
    /\ \A k \in 1..Len(xlog) :
           xlog[k].outcome \in PageOutcomes => ~Blocked(robots, xlog[k].url)

\* Both stages downloaded robots.txt, and the Extractor requested a page that
\* the policy the Discoverer had parsed disallows.
C18_SecondDownloadOtherPolicy ==
    /\ RobotsDownloads = 2
    /\ dlog[1].op = "robots"
    /\ xlog[1].outcome = "robots_failed"
    /\ Blocked(robots, Council)
    /\ \E k \in 1..Len(xlog) :
           xlog[k].outcome \in PageOutcomes /\ xlog[k].url = Council

\* The pages that were requested and gave no document, since the last
\* document; the links that were skipped do not count
PagesWithoutDocument ==
    LET extracted == { k \in 1..Len(xlog) : xlog[k].outcome = "document" }
        last == Max({0} \cup extracted)
    IN  Cardinality({ k \in (last + 1)..Len(xlog) :
                        xlog[k].outcome \in PageOutcomes })

\* The pages of the site, and the URLs the links of each lead to
SitePages ==
    { Home, Council, Minutes, Year, January, Meetings, About, Tourism, MinutesPdf }

LinkedFrom ==
    [ url \in SitePages |->
        { normalizeUrl(url, PageLinks(url)[m].href) : m \in 1..Len(PageLinks(url)) } ]

\* The URLs linked from the pages the Discoverer has requested
LinkedFromFetched ==
    UNION { LinkedFrom[dlog[j].url] :
              j \in { i \in 1..Len(dlog) : dlog[i].op = "fetch" } }

\* C19: a URL the robots policy disallows is skipped without being fetched and
\* without being counted as a failure.  In extractDocuments the skip leaves
\* the consecutive-failure counter as it is and adds no document; in
\* discoverRelevantPages the URL is marked visited, contributes no links, and
\* the crawl continues.
C19_DisallowedUrlIsSkipped ==
    /\ \A k \in 1..Len(xlog) :
           Blocked(xrobots, xlog[k].url) => xlog[k].outcome = "blocked"
    /\ \A k \in 1..Len(documents) : ~Blocked(xrobots, documents[k].source_url)
    /\ consecutiveFailures = PagesWithoutDocument
    /\ \A k \in 1..Len(dlog) :
           Blocked(robots, dlog[k].url) =>
               /\ dlog[k].op = "blocked"
               /\ dlog[k].url \in visited
    /\ \A k \in 1..Len(results) : results[k].url \in LinkedFromFetched
    /\ \A k \in 1..Len(queue) : queue[k].url \in LinkedFromFetched
    /\ (dlog # <<>> /\ dlog[Len(dlog)].op = "blocked") =>
           (queue = <<>> /\ dpc = "done")

\* The Discoverer passed over /council, which its policy disallows, and went
\* on to request another page; the Extractor passed over /meetings after a
\* failed page and returned, the counter still standing where the failure
\* had left it.
C19_SkippedAndWentOn ==
    /\ \E k \in 1..(Len(dlog) - 1) :
           /\ dlog[k] = [op |-> "blocked", url |-> Council, depth |-> 1]
           /\ dlog[k + 1].op = "fetch"
    /\ xpc = "done"
    /\ xlog[Len(xlog) - 1].outcome = "fetch_error"
    /\ xlog[Len(xlog)] = [url |-> Meetings, outcome |-> "blocked"]
    /\ consecutiveFailures > 0
    /\ documents = <<>>

\* C24: nothing is retried.  Within one crawl every URL is fetched at most
\* once; a URL whose fetch fails stays in the visited set, contributes no
\* links and is never fetched again, and the crawl continues with the
\* remaining queue entries.  extractDocuments attempts each discovered link
\* at most once.
C24_NothingRetried ==
    /\ \A j, k \in 1..Len(dlog) :
           (j < k /\ dlog[j].op = "fetch" /\ dlog[k].op = "fetch")
               => dlog[j].url # dlog[k].url
    /\ \A k \in 1..Len(dlog) : dlog[k].op = "fetch" => dlog[k].url \in visited
    /\ \A k \in 1..Len(results) : results[k].url \in LinkedFromFetched
    /\ (dpc = "done" /\ dlog # <<>> /\ ~timeoutReached) => queue = <<>>
    /\ \A j, k \in 1..Len(xlog) : j < k => xlog[j].url # xlog[k].url
    /\ Len(xlog) <= Len(discoveredUrls) + 1
    /\ (xpc = "done" /\ xlog # <<>> /\ ~Aborted) => Len(xlog) = Len(discoveredUrls) + 1

\* The request of /council failed in the crawl: the page was requested, the
\* crawl went on to its end with /council visited, and /council/minutes,
\* which only that page links to, is unknown.  The Extractor's request of
\* /council failed too, and it went on to the last link.
C24_FailedAndWentOn ==
    /\ \E k \in 1..(Len(dlog) - 1) :
           dlog[k].op = "fetch" /\ dlog[k].url = Council
    /\ dpc = "done" /\ ~timeoutReached /\ queue = <<>>
    /\ Council \in visited
    /\ Minutes \notin visited
    /\ \A k \in 1..Len(results) : results[k].url # Minutes
    /\ xpc = "done"
    /\ \E k \in 1..(Len(xlog) - 1) :
           xlog[k] = [url |-> Council, outcome |-> "fetch_error"]
    /\ Len(xlog) = Len(discoveredUrls) + 1

====
